---- MODULE Spec2Model ----
(***************************************************************************)
(* Evaluation context and per-row error machinery of the expression        *)
(* interpreter (velox/expression/EvalCtx.h): the EvalErrors error set, the *)
(* EvalCtx error recording and no-throw adapter, ContextSaver save and     *)
(* restore, and result merging.                                            *)
(***************************************************************************)
EXTENDS Integers, Sequences, FiniteSets, TLC

\* Number of rows of the batch; rows are 0 .. NumRows - 1.
NumRows == 3

Rows == 0 .. NumRows - 1

\* Identities of the std::exception_ptr objects a failure can carry.
Details == {"d1", "d2"}

\* A null std::shared_ptr<void> in the values of the error vector.
NoDetail == "nullptr"

\* A null pointer to an object with state (EvalErrorsPtr, VectorPtr,
\* SelectivityVector*): the empty sequence; Some(x) points to x.
None == <<>>

Some(x) == <<x>>

\* A null pointer to an object known by its identity alone.
NullPtr == "nullptr"

\* The selections (SelectivityVector) a caller may pass.
Selections == SUBSET Rows

\* The sequence of n copies of v.
RECURSIVE Fill(_, _)
Fill(n, v) == IF n <= 0 THEN <<>> ELSE Append(Fill(n - 1, v), v)

Min(S) == CHOOSE x \in S : \A y \in S : x <= y

\* SelectivityVector::end(): one past the last selected row.
end(rows) ==
    IF rows = {} THEN 0
    ELSE (CHOOSE x \in rows : \A y \in rows : y <= x) + 1

(***************************************************************************)
(* EvalErrors.  The error vector is a FlatVector<std::shared_ptr<void>>:   *)
(* nulls[i + 1] is isNullAt(i) (null = no error at row i), values[i + 1]   *)
(* is valueAt(i).  Its size is the common length of the two sequences.     *)
(***************************************************************************)

\* EvalErrors(pool, size): every position null, no value stored.
EvalErrors(n) == [nulls |-> Fill(n, TRUE), values |-> Fill(n, NoDetail)]

size(e) == Len(e.nulls)

isNullAt(e, index) == e.nulls[index + 1]

valueAt(e, index) == e.values[index + 1]

\* FlatVector::setNull: the null flag alone; the stored value stays as it is.
setNull(e, index, isNull) == [e EXCEPT !.nulls[index + 1] = isNull]

\* FlatVector::set: stores the value and clears the null flag.
set(e, index, value) ==
    [e EXCEPT !.values[index + 1] = value, !.nulls[index + 1] = FALSE]

\* A variant of ensureCapacity that resizes to n, up or down.
ensureCapacityResizing(e, n) ==
    IF size(e) >= n
    THEN [nulls |-> SubSeq(e.nulls, 1, n), values |-> SubSeq(e.values, 1, n)]
    ELSE [nulls |-> e.nulls \o Fill(n - size(e), TRUE),
          values |-> e.values \o Fill(n - size(e), NoDetail)]

\* ensureCapacity: no-op when size() is at least n; the new positions are
\* null.
ensureCapacity(e, n) ==
    IF size(e) >= n
    THEN e
    ELSE [nulls |-> e.nulls \o Fill(n - size(e), TRUE),
          values |-> e.values \o Fill(n - size(e), NoDetail)]

\* The values of a bit of the nulls buffer: bits::kNull for a null position,
\* bits::kNotNull for one that holds a value.
kNull == 0

kNotNull == 1

\* FlatVector::rawNulls: one bit for each position.
RECURSIVE rawNullsFrom(_, _)
rawNullsFrom(e, index) ==
    IF index >= size(e) THEN <<>>
    ELSE <<IF isNullAt(e, index) THEN kNull ELSE kNotNull>>
             \o rawNullsFrom(e, index + 1)

rawNulls(e) == rawNullsFrom(e, 0)

RECURSIVE invertedFrom(_, _)
invertedFrom(e, index) ==
    IF index >= size(e) THEN <<>>
    ELSE <<IF isNullAt(e, index) THEN kNotNull ELSE kNull>>
             \o invertedFrom(e, index + 1)

\* A variant of errorFlags with the bits the other way round.
errorFlagsInverted(e) == invertedFrom(e, 0)

\* errorFlags: the nulls buffer of the error vector.
errorFlags(e) == rawNulls(e)

\* bits::findFirstBit(bits, begin, end): the first set bit, -1 without one.
RECURSIVE findFirstBit(_, _, _)
findFirstBit(bits, begin, end_) ==
    IF begin >= end_ THEN -1
    ELSE IF bits[begin + 1] = kNotNull THEN begin
    ELSE findFirstBit(bits, begin + 1, end_)

\* BaseVector::countNulls(nulls, size): the clear bits among the first
\* 'size' of the nulls buffer.
RECURSIVE countNulls(_, _, _)
countNulls(bits, begin, end_) ==
    IF begin >= end_ THEN 0
    ELSE (IF bits[begin + 1] = kNull THEN 1 ELSE 0)
             + countNulls(bits, begin + 1, end_)

\* A variant of countErrors that counts the exceptions stored.
countErrorsStored(e) ==
    Cardinality({i \in 0 .. size(e) - 1 : valueAt(e, i) # NoDetail})

\* countErrors: the rows that are not null.
countErrors(e) == size(e) - countNulls(rawNulls(e), 0, size(e))

hasError(e) == \E i \in 0 .. size(e) - 1 : ~isNullAt(e, i)

hasErrorAt(e, index) == index < size(e) /\ ~isNullAt(e, index)

\* errorAt: "nullopt" without an error, NoDetail for an error without
\* details, the exception otherwise.
errorAt(e, index) ==
    IF ~hasErrorAt(e, index) THEN "nullopt" ELSE valueAt(e, index)

\* setError(index): marks the row, stores no detail.
setError(e, index) == setNull(ensureCapacity(e, index + 1), index, FALSE)

\* A variant of clearError that reserves the row like setError does.
clearErrorReserving(e, index) ==
    setNull(ensureCapacity(e, index + 1), index, TRUE)

\* clearError: the row is null again; a row the set does not have is left.
clearError(e, index) ==
    IF index < size(e) THEN setNull(e, index, TRUE) ELSE e

\* A variant of setErrorPtr that overwrites an error already recorded.
setErrorPtrOverwrite(e, index, exceptionPtr) ==
    set(ensureCapacity(e, index + 1), index, exceptionPtr)

\* setError(index, exceptionPtr): no-op when the row already has an error.
setErrorPtr(e, index, exceptionPtr) ==
    LET c == ensureCapacity(e, index + 1)
    IN  IF isNullAt(c, index) THEN set(c, index, exceptionPtr) ELSE c

(***************************************************************************)
(* Outcomes of a call: it returns, or a failure leaves it.  "raised"       *)
(* carries the rethrown exception; "check_failed" is the runtime failure   *)
(* of a VELOX_CHECK.                                                       *)
(***************************************************************************)
Returned == [kind |-> "returned", error |-> NoDetail]

Raised(d) == [kind |-> "raised", error |-> d]

CheckFailed == [kind |-> "check_failed", error |-> NoDetail]

\* throwIfErrorAt: rethrows the stored exception; VELOX_CHECK_NOT_NULL fails
\* when the error has no details.
throwIfErrorAt(e, index) ==
    IF hasErrorAt(e, index)
    THEN IF valueAt(e, index) = NoDetail
         THEN CheckFailed
         ELSE Raised(valueAt(e, index))
    ELSE Returned

\* A variant of the loop of throwFirstError that gives up at the first
\* selected row, whether or not it has an error.
RECURSIVE throwFirstErrorFirstRowOnly(_, _, _)
throwFirstErrorFirstRowOnly(e, rows, row) ==
    IF row >= NumRows THEN Returned
    ELSE IF row \notin rows THEN throwFirstErrorFirstRowOnly(e, rows, row + 1)
    ELSE IF row < size(e) THEN throwIfErrorAt(e, row)
    ELSE Returned

\* The loop of throwFirstError: rows.testSelected visits the selected rows
\* in increasing order from 'row' and stops when the callback returns false.
RECURSIVE throwFirstErrorFrom(_, _, _)
throwFirstErrorFrom(e, rows, row) ==
    IF row >= NumRows THEN Returned
    ELSE IF row \notin rows THEN throwFirstErrorFrom(e, rows, row + 1)
    ELSE IF row < size(e)
         THEN LET out == throwIfErrorAt(e, row)
              IN  IF out.kind = "returned"
                  THEN throwFirstErrorFrom(e, rows, row + 1)
                  ELSE out
         ELSE Returned

throwFirstError(e, rows) == throwFirstErrorFrom(e, rows, 0)

\* A variant of copyError that overwrites the error of the target row.
copyErrorOverwrite(e, from, fromIndex, toIndex) ==
    IF hasErrorAt(from, fromIndex)
    THEN set(ensureCapacity(e, toIndex + 1), toIndex,
             valueAt(from, fromIndex))
    ELSE e

\* copyError(from, fromIndex, toIndex): no-op if 'from' has no error at
\* fromIndex or this set has one at toIndex.
copyError(e, from, fromIndex, toIndex) ==
    IF hasErrorAt(from, fromIndex)
    THEN LET c == ensureCapacity(e, toIndex + 1)
         IN  IF isNullAt(c, toIndex)
             THEN set(c, toIndex, valueAt(from, fromIndex))
             ELSE c
    ELSE e

\* A variant of the loop of copyErrors(rows, from) that leaves the rows
\* selection out of account and visits every row of 'from'.
RECURSIVE copyErrorsRowsAllFrom(_, _, _, _)
copyErrorsRowsAllFrom(e, rows, from, row) ==
    IF row >= size(from) \/ row >= size(e) THEN e
    ELSE IF hasErrorAt(from, row) /\ isNullAt(e, row)
    THEN copyErrorsRowsAllFrom(set(e, row, valueAt(from, row)), rows, from,
                               row + 1)
    ELSE copyErrorsRowsAllFrom(e, rows, from, row + 1)

\* The loop of copyErrors(rows, from): rows.testSelected visits the selected
\* rows in increasing order from 'row' and stops at the first one that is
\* not below from.size().
RECURSIVE copyErrorsRowsFrom(_, _, _, _)
copyErrorsRowsFrom(e, rows, from, row) ==
    IF row >= NumRows THEN e
    ELSE IF row \notin rows THEN copyErrorsRowsFrom(e, rows, from, row + 1)
    ELSE IF row < size(from)
    THEN IF hasErrorAt(from, row) /\ isNullAt(e, row)
         THEN copyErrorsRowsFrom(set(e, row, valueAt(from, row)), rows, from,
                                 row + 1)
         ELSE copyErrorsRowsFrom(e, rows, from, row + 1)
    ELSE e

\* copyErrors(rows, from): the errors of 'from' at the selected rows go to
\* the same rows of this set unless the row already has one.
copyErrorsRows(e, rows, from) ==
    LET fromSize == size(from)
        n == IF fromSize <= end(rows) THEN fromSize ELSE end(rows)
    IN  copyErrorsRowsFrom(ensureCapacity(e, n), rows, from, 0)

\* A variant of the loop of copyErrors(from) that marks the rows and leaves
\* the exceptions behind.
RECURSIVE copyErrorsFlagsOnlyFrom(_, _, _)
copyErrorsFlagsOnlyFrom(e, from, row) ==
    IF row >= size(from) THEN e
    ELSE IF ~isNullAt(from, row) /\ isNullAt(e, row)
    THEN copyErrorsFlagsOnlyFrom(set(e, row, NoDetail), from, row + 1)
    ELSE copyErrorsFlagsOnlyFrom(e, from, row + 1)

\* A variant of the loop of copyErrors(from) that overwrites the errors the
\* set already has.
RECURSIVE copyErrorsOverwriteFrom(_, _, _)
copyErrorsOverwriteFrom(e, from, row) ==
    IF row >= size(from) THEN e
    ELSE IF ~isNullAt(from, row)
    THEN copyErrorsOverwriteFrom(set(e, row, valueAt(from, row)), from,
                                 row + 1)
    ELSE copyErrorsOverwriteFrom(e, from, row + 1)

\* The loop of copyErrors(from): bits::forEachSetBit visits the rows of
\* 'from' that have an error, from 'row' on.
RECURSIVE copyErrorsFrom(_, _, _)
copyErrorsFrom(e, from, row) ==
    IF row >= size(from) THEN e
    ELSE IF ~isNullAt(from, row) /\ isNullAt(e, row)
    THEN copyErrorsFrom(set(e, row, valueAt(from, row)), from, row + 1)
    ELSE copyErrorsFrom(e, from, row + 1)

\* A variant of copyErrors(from) that does not reserve the rows of 'from':
\* it copies into the rows this set already has.
copyErrorsNoGrow(e, from) ==
    IF size(from) <= size(e) THEN copyErrorsFrom(e, from, 0)
    ELSE copyErrorsRowsFrom(e, {r \in Rows : r < size(e)}, from, 0)

\* copyErrors(from): every error of 'from' goes to the same row of this set
\* unless the row already has one.
copyErrors(e, from) ==
    copyErrorsFrom(ensureCapacity(e, size(from)), from, 0)

(***************************************************************************)
(* EvalCtx: error recording.  These operators take and give the value of   *)
(* errors_ (None or Some(EvalErrors)).                                     *)
(***************************************************************************)

\* ensureErrorsVectorSize: creates the EvalErrors when there is none.
ensureErrorsVectorSize(errorsPtr, n) ==
    IF errorsPtr = None
    THEN Some(EvalErrors(n))
    ELSE Some(ensureCapacity(errorsPtr[1], n))

\* addError(index, errorsPtr): marks the row without details.
addError(index, errorsPtr) ==
    Some(setError(ensureErrorsVectorSize(errorsPtr, index + 1)[1], index))

\* addError(index, exceptionPtr, errorsPtr): sets the error if the row has
\* none.
addErrorPtr(index, exceptionPtr, errorsPtr) ==
    Some(setErrorPtr(ensureErrorsVectorSize(errorsPtr, index + 1)[1],
                     index, exceptionPtr))

\* A variant of deselectErrors that goes by the exceptions stored.
deselectErrorsStored(errs, rows) ==
    IF errs = None THEN rows
    ELSE {r \in rows : ~(r < size(errs[1])
                             /\ valueAt(errs[1], r) # NoDetail)}

\* deselectErrors(rows): the rows with an error are no longer selected.
deselectErrors(errs, rows) ==
    IF errs = None THEN rows
    ELSE {r \in rows : ~hasErrorAt(errs[1], r)}

\* The result of a context call that may change errors_ and may raise.
Effect(errs, out) == [errors |-> errs, out |-> out]

\* A variant of ctxSetError that stores the exception whatever
\* captureErrorDetails_ is.
ctxSetErrorAlwaysCapture(errs, throwOn, capture, index, exceptionPtr) ==
    IF throwOn
    THEN Effect(errs, Raised(exceptionPtr))
    ELSE Effect(addErrorPtr(index, exceptionPtr, errs), Returned)

\* A variant of ctxSetError that saves the error whatever throwOnError_ is.
ctxSetErrorAlwaysSave(errs, throwOn, capture, index, exceptionPtr) ==
    Effect(IF capture
           THEN addErrorPtr(index, exceptionPtr, errs)
           ELSE addError(index, errs),
           Returned)

\* EvalCtx::setError and EvalCtx::setVeloxExceptionError: with throwOnError_
\* the exception is thrown directly, otherwise it is saved for later
\* processing, with details only if captureErrorDetails_.
ctxSetError(errs, throwOn, capture, index, exceptionPtr) ==
    IF throwOn
    THEN Effect(errs, Raised(exceptionPtr))
    ELSE Effect(IF capture
                THEN addErrorPtr(index, exceptionPtr, errs)
                ELSE addError(index, errs),
                Returned)

\* What the row function does at a row: it returns, or throws a user-level
\* VeloxException, a non-user VeloxException, or another std::exception.
FuncKinds == {"ok", "user", "system", "std"}

\* The exception func throws, by its kind.
Thrown(kind) ==
    CASE kind = "user" -> "d1"
      [] kind = "std" -> "d2"
      [] OTHER -> "system failure"

SystemRaised == [kind |-> "raised_system", error |-> Thrown("system")]

\* The result of the adapter: errors_, the outcome, the rows func ran on.
Applied(errs, out, visited) ==
    [errors |-> errs, out |-> out, visited |-> visited]

\* A variant of the adapter's loop whose first handler records the
\* exception whether or not it is a user error.
RECURSIVE applyCatchAllFrom(_, _, _, _, _, _, _)
applyCatchAllFrom(errs, throwOn, capture, rows, func, row, visited) ==
    IF row >= NumRows THEN Applied(errs, Returned, visited)
    ELSE IF row \notin rows
    THEN applyCatchAllFrom(errs, throwOn, capture, rows, func, row + 1, visited)
    ELSE LET seen == visited \cup {row}
             eff == ctxSetError(errs, throwOn, capture, row,
                                Thrown(func[row]))
         IN  IF func[row] = "ok"
             THEN applyCatchAllFrom(errs, throwOn, capture, rows, func, row + 1, seen)
             ELSE IF eff.out.kind = "returned"
             THEN applyCatchAllFrom(eff.errors, throwOn, capture, rows, func,
                                    row + 1, seen)
             ELSE Applied(eff.errors, eff.out, seen)

\* A variant of the adapter's loop that stops at the first row that fails,
\* after recording its error.
RECURSIVE applyStopAtFailureFrom(_, _, _, _, _, _, _)
applyStopAtFailureFrom(errs, throwOn, capture, rows, func, row, visited) ==
    IF row >= NumRows THEN Applied(errs, Returned, visited)
    ELSE IF row \notin rows
    THEN applyStopAtFailureFrom(errs, throwOn, capture, rows, func, row + 1, visited)
    ELSE LET seen == visited \cup {row}
             eff == ctxSetError(errs, throwOn, capture, row,
                                Thrown(func[row]))
         IN  IF func[row] = "ok"
             THEN applyStopAtFailureFrom(errs, throwOn, capture, rows, func, row + 1, seen)
             ELSE IF func[row] = "system"
             THEN Applied(errs, SystemRaised, seen)
             ELSE IF eff.out.kind = "returned"
             THEN Applied(eff.errors, Returned, seen)
             ELSE Applied(eff.errors, eff.out, seen)

\* The loop of applyToSelectedNoThrow: rows.applyToSelected visits the
\* selected rows in increasing order; an exception that leaves the callback
\* ends the loop.  A VeloxException that is not a user error is rethrown, a
\* user error goes to setVeloxExceptionError and any other std::exception to
\* setError, and what these throw leaves the callback too.
RECURSIVE applyToSelectedNoThrowFrom(_, _, _, _, _, _, _)
applyToSelectedNoThrowFrom(errs, throwOn, capture, rows, func, row, visited) ==
    IF row >= NumRows THEN Applied(errs, Returned, visited)
    ELSE IF row \notin rows
    THEN applyToSelectedNoThrowFrom(errs, throwOn, capture, rows, func, row + 1, visited)
    ELSE LET seen == visited \cup {row}
             eff == ctxSetError(errs, throwOn, capture, row,
                                Thrown(func[row]))
         IN  IF func[row] = "ok"
             THEN applyToSelectedNoThrowFrom(errs, throwOn, capture, rows, func, row + 1, seen)
             ELSE IF func[row] = "system"
             THEN Applied(errs, SystemRaised, seen)
             ELSE IF eff.out.kind = "returned"
             THEN applyToSelectedNoThrowFrom(eff.errors, throwOn, capture,
                                             rows, func, row + 1, seen)
             ELSE Applied(eff.errors, eff.out, seen)

applyToSelectedNoThrow(errs, throwOn, capture, rows, func) ==
    applyToSelectedNoThrowFrom(errs, throwOn, capture, rows, func, 0, {})

(***************************************************************************)
(* EvalCtx: the state ContextSaver snapshots, as a record, and the          *)
(* operations on it.                                                       *)
(***************************************************************************)

\* The fields of a context that saveAndReset and restore touch.
Context(fields, encoding, pruned, final, errs) ==
    [peeledFields |-> fields, peeledEncoding |-> encoding,
     nullsPruned |-> pruned, finalSelection |-> final, errors |-> errs]

\* A default-constructed ContextSaver: context is nullptr (FALSE: nothing to
\* restore); rows and finalSelection have no initializer and are not read
\* before saveAndReset writes them.
ContextSaver ==
    [context |-> FALSE, peeled |-> <<>>, peeledEncoding |-> NullPtr,
     nullsPruned |-> FALSE, rows |-> None, finalSelection |-> None,
     errors |-> None]

\* setPeeled(index, vector): peeledFields_ grows to index + 1 with null
\* vectors when it is shorter, then takes the vector at index.
setPeeled(fields, index, vector) ==
    LET grown == IF Len(fields) <= index
                 THEN fields \o Fill(index + 1 - Len(fields), NullPtr)
                 ELSE fields
    IN  [grown EXCEPT ![index + 1] = vector]

\* The columns of the batch: the children of row_.
RowColumns == <<"c0", "c1", "c2">>

Fields == 0 .. Len(RowColumns) - 1

\* row_->childAt(index)
childAt(index) == RowColumns[index + 1]

\* The vectors that peeling puts in place of a column.
PeeledVectors == {"p1", "p2"}

\* What a read past the end of peeledFields_ may give: any vector, or a
\* fault.
AnyVector ==
    {childAt(i) : i \in Fields} \cup PeeledVectors \cup {NullPtr, "fault"}

\* A variant of getField that goes to the batch for a field that peeling
\* left null or did not reach.
getFieldPerColumn(fields, index) ==
    IF index < Len(fields) /\ fields[index + 1] # NullPtr
    THEN {fields[index + 1]}
    ELSE {childAt(index)}

\* getField(index): "the index-th column of the base row.  If we have
\* peeled off wrappers like dictionaries, then this provides access only to
\* the peeled off fields".  Gives the set of the possible outcomes.
getField(fields, index) ==
    IF fields = <<>> THEN {childAt(index)}
    ELSE IF index < Len(fields) THEN {fields[index + 1]}
    ELSE AnyVector

\* moveAppendErrors(other): adds the errors of this context to 'other',
\* an error 'other' already has at a row staying, and clears this context's
\* errors.  Gives the new value of 'other'.
moveAppendErrors(errs, other) ==
    IF errs = None THEN other
    ELSE IF other = None THEN errs
    ELSE Some(copyErrors(other[1], errs[1]))

\* saveAndReset(saver, rows): the saver takes the peeled fields and encoding,
\* nullsPruned_, the rows, finalSelection_ and the errors, which are moved
\* out; the context is left without peeled state and without errors, its
\* final selection narrowed to rows.
saveAndReset(c, s, rows) ==
    [saver |-> [context |-> TRUE, peeled |-> c.peeledFields,
                peeledEncoding |-> c.peeledEncoding,
                nullsPruned |-> c.nullsPruned, rows |-> Some(rows),
                finalSelection |-> c.finalSelection, errors |-> c.errors],
     ctx |-> Context(<<>>, NullPtr, c.nullsPruned, Some(rows), None)]

\* A variant of restore that leaves finalSelection_ as the scope had it.
restoreKeepFinalSelection(c, s) ==
    Context(s.peeled, s.peeledEncoding, s.nullsPruned, c.finalSelection,
            moveAppendErrors(c.errors, s.errors))

\* restore(saver): reinstates the snapshot and folds the errors of the scope
\* into the saved errors.
restore(c, s) ==
    Context(s.peeled, s.peeledEncoding, s.nullsPruned, s.finalSelection,
            moveAppendErrors(c.errors, s.errors))

\* A variant of withContextSaver that restores on every exit of f, as a
\* scope guard would.
withContextSaverOnEveryExit(c, s, out) ==
    IF s.context THEN restore(c, s) ELSE c

\* withContextSaver, after f(saver): when f returned, the context is
\* restored if the saver holds one; an exception of f leaves
\* withContextSaver at the call of f, before the restore.
withContextSaver(c, s, out) ==
    IF out.kind = "returned"
    THEN IF s.context THEN restore(c, s) ELSE c
    ELSE c

(***************************************************************************)
(* EvalCtx: result merging.  A vector is the sequence of its values.       *)
(***************************************************************************)

\* The value of a position that a resize added and nothing wrote yet.
Unset == "unset"

\* The call faulted: a null pointer was dereferenced.
Fault == [kind |-> "fault", error |-> NoDetail]

\* BaseVector::ensureWritable(rows, type, pool, result): the vector stays
\* with its values and is at least rows.end() long.
ensureWritable(rows, vector) ==
    IF Len(vector) < end(rows)
    THEN vector \o Fill(end(rows) - Len(vector), Unset)
    ELSE vector

\* BaseVector::copy(source, rows, nullptr): the selected rows take the
\* values of source, from 'row' on.
RECURSIVE copyFrom(_, _, _, _)
copyFrom(vector, source, rows, row) ==
    IF row >= Len(vector) THEN vector
    ELSE IF row \in rows
    THEN copyFrom([vector EXCEPT ![row + 1] = source[row + 1]], source, rows,
                  row + 1)
    ELSE copyFrom(vector, source, rows, row + 1)

copy(vector, source, rows) == copyFrom(vector, source, rows, 0)

\* resultShouldBePreserved(result, rows): the values the call can give.
\* With a result, isFinalSelection_ false and finalSelection_ null,
\* *finalSelection() dereferences a null pointer: the call may fault or give
\* either value.
resultShouldBePreserved(res, isFinal, final, rows) ==
    IF res = None \/ isFinal THEN {"false"}
    ELSE IF final = None THEN {"fault", "true", "false"}
    ELSE IF final[1] # rows THEN {"true"} ELSE {"false"}

\* The result slot and the outcome of a moveOrCopyResult.
Merged(res, out) == [result |-> res, out |-> out]

\* A variant of moveOrCopyResult that copies the rows into a result that
\* is there, preserved or not.
moveOrCopyResultAlwaysCopy(localResult, rows, res, preserved) ==
    IF preserved = "fault" THEN Merged(res, Fault)
    ELSE IF res # None
    THEN Merged(Some(copy(ensureWritable(rows, res[1]), localResult, rows)),
                Returned)
    ELSE Merged(Some(localResult), Returned)

\* A variant of moveOrCopyResult that always takes the local result.
moveOrCopyResultAlwaysMove(localResult, rows, res, preserved) ==
    IF preserved = "fault" THEN Merged(res, Fault)
    ELSE Merged(Some(localResult), Returned)

\* moveOrCopyResult(localResult, rows, result), given what
\* resultShouldBePreserved gave.
moveOrCopyResult(localResult, rows, res, preserved) ==
    IF preserved = "fault" THEN Merged(res, Fault)
    ELSE IF preserved = "true"
    THEN Merged(Some(copy(ensureWritable(rows, res[1]), localResult, rows)),
                Returned)
    ELSE Merged(Some(localResult), Returned)

(***************************************************************************)
(* CheckOverflowFunction (sparksql/Decimal.cpp): the kernel of             *)
(* check_overflow over a batch of decimals.                                *)
(***************************************************************************)

RECURSIVE Pow10(_)
Pow10(n) == IF n <= 0 THEN 1 ELSE 10 * Pow10(n - 1)

Abs(x) == IF x < 0 THEN 0 - x ELSE x

\* What DecimalUtil::rescaleWithRoundUp gives: a value, std::nullopt, or a
\* user error thrown.
Rescaled(kind, value) == [kind |-> kind, value |-> value]

\* The value moved from fromScale to toScale, halves rounded away from
\* zero.
rescaledValue(value, fromScale, toScale) ==
    IF toScale >= fromScale THEN value * Pow10(toScale - fromScale)
    ELSE LET factor == Pow10(fromScale - toScale)
             quotient == Abs(value) \div factor
             remainder == Abs(value) % factor
             rounded == IF 2 * remainder >= factor THEN quotient + 1
                        ELSE quotient
         IN  IF value < 0 THEN 0 - rounded ELSE rounded

\* DecimalUtil::rescaleWithRoundUp: a value that does not fit toPrecision
\* digits is std::nullopt with nullOnOverflow and a user error without.
rescaleWithRoundUp(value, fromScale, toPrecision, toScale, nullOnOverflow) ==
    LET rescaled == rescaledValue(value, fromScale, toScale)
    IN  IF Abs(rescaled) >= Pow10(toPrecision)
        THEN IF nullOnOverflow THEN Rescaled("nullopt", 0)
             ELSE Rescaled("throw", 0)
        ELSE Rescaled("value", rescaled)

\* A position of the result vector of the kernel.
ResultCell(isNull, value) == [null |-> isNull, value |-> value]

\* context.ensureWritable(rows, toType, resultRef) on an empty result: a
\* vector of rows.end() positions.
newResult(rows) == Fill(end(rows), ResultCell(FALSE, 0))

\* The result vector, the outcome and the rows visited by the kernel.
Kernel(res, out, visited) == [result |-> res, out |-> out, visited |-> visited]

\* The decimal type of the input and the types asked for: precision and
\* scale.
FromType == <<3, 1>>

ToTypes == {<<2, 0>>, <<2, 1>>}

\* The unscaled values of the input rows.
OverflowValues == {0 - 995, 15, 994}

\* rows.applyToSelected in applyForVectorType, from 'row' on: a row whose
\* value fits is written, one whose rescaleWithRoundUp is std::nullopt is
\* set null, and the user error of a row leaves the loop and the kernel.
RECURSIVE applyForVectorTypeFrom(_, _, _, _, _, _, _)
applyForVectorTypeFrom(res, rows, values, toType, nullOnOverflow, row, visited) ==
    IF row >= NumRows THEN Kernel(res, Returned, visited)
    ELSE IF row \notin rows
    THEN applyForVectorTypeFrom(res, rows, values, toType, nullOnOverflow,
                                row + 1, visited)
    ELSE LET r == rescaleWithRoundUp(values[row + 1], FromType[2],
                                     toType[1], toType[2], nullOnOverflow)
         IN  IF r.kind = "throw"
             THEN Kernel(res, Raised(Thrown("user")), visited \cup {row})
             ELSE applyForVectorTypeFrom(
                      IF r.kind = "value"
                      THEN [res EXCEPT ![row + 1] =
                                ResultCell(res[row + 1].null, r.value)]
                      ELSE [res EXCEPT ![row + 1].null = TRUE],
                      rows, values, toType, nullOnOverflow, row + 1,
                      visited \cup {row})

\* CheckOverflowFunction::apply on an empty result.
checkOverflow(rows, values, toType, nullOnOverflow) ==
    applyForVectorTypeFrom(newResult(rows), rows, values, toType,
                           nullOnOverflow, 0, {})

(***************************************************************************)
(* RoundDecimalFunction (sparksql/Decimal.cpp): the type of the result.    *)
(***************************************************************************)

\* The largest precision of a decimal and the largest one of a short
\* decimal.
MaxPrecision == 38

MaxShortPrecision == 18

Max(a, b) == IF a >= b THEN a ELSE b

Least(a, b) == IF a <= b THEN a ELSE b

\* The type of the result and whether it is a long decimal.
RoundType(toPrecision, toScale, long) ==
    [toPrecision |-> toPrecision, toScale |-> toScale, long |-> long]

\* A variant of roundDecimalType that takes the digits a negative scale
\* asks for from 'scale'.
roundDecimalTypeByScale(fromPrecision, fromScale, scale) ==
    LET integralLeastNumDigits == fromPrecision - fromScale + 1
        toScale == IF scale < 0 THEN 0 ELSE Least(fromScale, scale)
        toPrecision ==
            IF scale < 0
            THEN Least(Max(integralLeastNumDigits, (0 - scale) + 1),
                       MaxPrecision)
            ELSE Least(integralLeastNumDigits + toScale, MaxPrecision)
    IN  RoundType(toPrecision, toScale, toPrecision > MaxShortPrecision)

\* RoundDecimalFunction::apply: "the result data type based on spark
\* logic", and the branch that writes int128_t values.
roundDecimalType(fromPrecision, fromScale, scale) ==
    LET integralLeastNumDigits == fromPrecision - fromScale + 1
        toScale == IF scale < 0 THEN 0 ELSE Least(fromScale, scale)
        toPrecision ==
            IF scale < 0
            THEN Least(Max(integralLeastNumDigits, (0 - fromScale) + 1),
                       MaxPrecision)
            ELSE Least(integralLeastNumDigits + toScale, MaxPrecision)
    IN  RoundType(toPrecision, toScale, toPrecision > MaxShortPrecision)

(***************************************************************************)
(* Scratch handles: LocalSelectivityVector, LocalSingleRow and             *)
(* LocalDecodedVector, and the pools of the ExecCtx they take from.  A     *)
(* pooled object is a number from 1 on; 0 is a null vector_.               *)
(***************************************************************************)

\* The handles of a run and the objects the pools may allocate.
MaxHandles == 2

MaxObjects == 2

Handles == 1 .. MaxHandles

HandleKinds ==
    {"LocalSelectivityVector", "LocalSingleRow", "LocalDecodedVector"}

\* The pool a kind of handle takes from: ExecCtx::getSelectivityVector or
\* ExecCtx::getDecodedVector.
PoolOf(kind) == IF kind = "LocalDecodedVector" THEN "dv" ELSE "sv"

\* A handle: not constructed yet, live or destroyed, and its vector_.
Handle(kind, state, vector) ==
    [kind |-> kind, state |-> state, vector |-> vector]

\* No handle constructed, nothing allocated: pooled holds the objects in
\* the pools, destroyed the ones that were deleted.
NoLocals ==
    [handles |-> Fill(MaxHandles, Handle("none", "unborn", 0)),
     sv |-> <<>>, dv |-> <<>>, made |-> 0, destroyed |-> {}]

PoolIn(l, pool) == IF pool = "dv" THEN l.dv ELSE l.sv

WithPool(l, pool, objects) ==
    IF pool = "dv" THEN [l EXCEPT !.dv = objects]
    ELSE [l EXCEPT !.sv = objects]

\* ExecCtx::getSelectivityVector / getDecodedVector: the object released
\* last, a new one when the pool is empty.
canGetVector(l, pool) == PoolIn(l, pool) # <<>> \/ l.made < MaxObjects

gotVector(l, pool) ==
    IF PoolIn(l, pool) # <<>>
    THEN PoolIn(l, pool)[Len(PoolIn(l, pool))]
    ELSE l.made + 1

getVector(l, pool) ==
    IF PoolIn(l, pool) # <<>>
    THEN WithPool(l, pool,
                  SubSeq(PoolIn(l, pool), 1, Len(PoolIn(l, pool)) - 1))
    ELSE [l EXCEPT !.made = l.made + 1]

\* ExecCtx::releaseSelectivityVector / releaseDecodedVector
releaseVector(l, pool, vector) ==
    WithPool(l, pool, Append(PoolIn(l, pool), vector))

\* std::unique_ptr giving up the object it owns: the object is deleted.
deleteVector(l, vector) ==
    IF vector = 0 THEN l ELSE [l EXCEPT !.destroyed = @ \cup {vector}]

\* The constructors.  LocalSingleRow and the constructors with a size, a
\* value or a vector to decode take an object; the others leave vector_
\* null.
localConstruct(l, h, kind, sized) ==
    IF kind = "LocalSingleRow" \/ sized
    THEN [getVector(l, PoolOf(kind)) EXCEPT
              !.handles[h] = Handle(kind, "live", gotVector(l, PoolOf(kind)))]
    ELSE [l EXCEPT !.handles[h] = Handle(kind, "live", 0)]

\* get(size), get(size, value), get(other) and LocalDecodedVector::get():
\* take an object when vector_ is null.
localGet(l, h) ==
    IF l.handles[h].vector = 0
    THEN [getVector(l, PoolOf(l.handles[h].kind)) EXCEPT
              !.handles[h].vector = gotVector(l, PoolOf(l.handles[h].kind))]
    ELSE l

\* LocalSelectivityVector::allocate(size): releases vector_ if there is
\* one and takes an object.
localAllocate(l, h) ==
    LET released == IF l.handles[h].vector = 0 THEN l
                    ELSE releaseVector(l, "sv", l.handles[h].vector)
    IN  [getVector(released, "sv") EXCEPT
             !.handles[h].vector = gotVector(released, "sv")]

\* LocalDecodedVector(LocalDecodedVector&& other)
localMoveConstruct(l, h, other) ==
    [l EXCEPT !.handles[h] = Handle("LocalDecodedVector", "live",
                                    l.handles[other].vector),
              !.handles[other].vector = 0]

\* LocalDecodedVector::operator=(LocalDecodedVector&& other): vector_ =
\* std::move(other.vector_) deletes the object vector_ owned.
localMoveAssign(l, h, other) ==
    [deleteVector(l, l.handles[h].vector) EXCEPT
         !.handles[h].vector = l.handles[other].vector,
         !.handles[other].vector = 0]

\* The destructors: LocalSingleRow releases vector_, the other two release
\* it when it is not null.
localDestroy(l, h) ==
    LET kind == l.handles[h].kind
        released == IF kind # "LocalSingleRow" /\ l.handles[h].vector = 0
                    THEN l
                    ELSE releaseVector(l, PoolOf(kind), l.handles[h].vector)
    IN  [released EXCEPT !.handles[h] = Handle(kind, "dead", 0)]

(***************************************************************************)
(* State.                                                                  *)
(***************************************************************************)
VARIABLES
    errors,               \* EvalCtx::errors_: None or Some(EvalErrors)
    throwOnError,         \* EvalCtx::throwOnError_
    captureErrorDetails,  \* EvalCtx::captureErrorDetails_
    nullsPruned,          \* EvalCtx::nullsPruned_
    isFinalSelection,     \* EvalCtx::isFinalSelection_
    finalSelection,       \* EvalCtx::finalSelection_: None or Some(rows)
    peeledFields,         \* EvalCtx::peeledFields_
    peeledEncoding,       \* EvalCtx::peeledEncoding_: NullPtr or an encoding
    saver,                \* the ContextSaver of the running withContextSaver
    result,               \* the caller's result slot: None or Some(vector)
    setters,              \* the live ScopedFinalSelectionSetters, innermost last
    locals,               \* the scratch handles and the pools of the ExecCtx
    last                  \* the last call: its name, arguments and outcome

vars == <<errors, throwOnError, captureErrorDetails, nullsPruned,
          isFinalSelection, finalSelection, peeledFields, peeledEncoding,
          saver, result, setters, locals, last>>

\* A call of the adapter: the selected rows, the outcome, the rows where
\* func throws a user error, a non-user VeloxException, another
\* std::exception, and the rows func ran on.
AdapterCall(rows, out, user, system, std, visited) ==
    [op |-> "applyToSelectedNoThrow", index |-> 0, rows |-> rows,
     d |-> NoDetail, out |-> out, user |-> user, system |-> system,
     std |-> std, visited |-> visited, arg |-> <<>>]

Call(op, index, rows, d, out) ==
    [op |-> op, index |-> index, rows |-> rows, d |-> d, out |-> out,
     user |-> {}, system |-> {}, std |-> {}, visited |-> {}, arg |-> <<>>]

NoCall == Call("none", 0, {}, NoDetail, Returned)

\* The state after EvalCtx's construction.
Init ==
    /\ errors = None
    /\ throwOnError = TRUE
    /\ captureErrorDetails = TRUE
    /\ nullsPruned = FALSE
    /\ isFinalSelection = TRUE
    /\ finalSelection = None
    /\ peeledFields = <<>>
    /\ peeledEncoding = NullPtr
    /\ saver = None
    /\ result = None
    /\ setters = <<>>
    /\ locals = NoLocals
    /\ last = NoCall

\* No call is under observation: 'last' holds a call from the step that
\* makes it until the caller has taken its outcome.
Idle == last = NoCall

\* The caller takes the outcome of the last call; the context is untouched.
TakeOutcome ==
    /\ ~Idle
    /\ last' = NoCall
    /\ UNCHANGED <<errors, throwOnError, captureErrorDetails, nullsPruned,
                   isFinalSelection, finalSelection, peeledFields,
                   peeledEncoding, saver, result, setters, locals>>

(***************************************************************************)
(* Calls on the EvalErrors reached through EvalCtx::errors().              *)
(***************************************************************************)
ErrEnsureCapacity ==
    /\ Idle
    /\ \E n \in 0 .. NumRows :
           /\ errors # None
           /\ errors' = Some(ensureCapacity(errors[1], n))
           /\ last' = [Call("ensureCapacity", n, {}, NoDetail, Returned)
                           EXCEPT !.arg = <<size(errors[1])>>]
           /\ UNCHANGED <<throwOnError, captureErrorDetails, nullsPruned,
                          isFinalSelection, finalSelection, peeledFields,
                          peeledEncoding, saver, result, setters, locals>>

ErrSetError ==
    /\ Idle
    /\ \E index \in Rows :
           /\ errors # None
           /\ errors' = Some(setError(errors[1], index))
           /\ last' = Call("setError", index, {}, NoDetail, Returned)
           /\ UNCHANGED <<throwOnError, captureErrorDetails, nullsPruned,
                          isFinalSelection, finalSelection, peeledFields,
                          peeledEncoding, saver, result, setters, locals>>

ErrSetErrorPtr ==
    /\ Idle
    /\ \E index \in Rows, d \in Details :
           /\ errors # None
           /\ errors' = Some(setErrorPtr(errors[1], index, d))
           /\ last' = Call("setErrorPtr", index, {}, d, Returned)
           /\ UNCHANGED <<throwOnError, captureErrorDetails, nullsPruned,
                          isFinalSelection, finalSelection, peeledFields,
                          peeledEncoding, saver, result, setters, locals>>

ErrClearError ==
    /\ Idle
    /\ \E index \in Rows :
           /\ errors # None
           /\ errors' = Some(clearError(errors[1], index))
           /\ last' = Call("clearError", index, {}, NoDetail, Returned)
           /\ UNCHANGED <<throwOnError, captureErrorDetails, nullsPruned,
                          isFinalSelection, finalSelection, peeledFields,
                          peeledEncoding, saver, result, setters, locals>>

ErrThrowFirstError ==
    /\ Idle
    /\ \E rows \in Selections :
           /\ errors # None
           /\ last' = Call("throwFirstError", 0, rows, NoDetail,
                           throwFirstError(errors[1], rows))
           /\ UNCHANGED <<errors, throwOnError, captureErrorDetails,
                          nullsPruned, isFinalSelection, finalSelection,
                          peeledFields, peeledEncoding, saver, result, setters,
                          locals>>

\* ensureErrorsVectorSize(size): creates errors_ when there is none.
EnsureErrorsVectorSize ==
    /\ Idle
    /\ \E n \in 0 .. NumRows :
           /\ errors' = ensureErrorsVectorSize(errors, n)
           /\ last' = Call("ensureErrorsVectorSize", n, {}, NoDetail, Returned)
           /\ UNCHANGED <<throwOnError, captureErrorDetails, nullsPruned,
                          isFinalSelection, finalSelection, peeledFields,
                          peeledEncoding, saver, result, setters, locals>>

hasErrorAtPtr(errorsPtr, index) ==
    errorsPtr # None /\ hasErrorAt(errorsPtr[1], index)

errorAtPtr(errorsPtr, index) ==
    IF errorsPtr = None THEN "nullopt" ELSE errorAt(errorsPtr[1], index)

(***************************************************************************)
(* Calls on the EvalCtx: flags, error recording, the no-throw adapter.     *)
(***************************************************************************)
\* *mutableThrowOnError() = b
SetThrowOnError ==
    /\ Idle
    /\ \E b \in BOOLEAN :
           /\ throwOnError' = b
           /\ last' = Call("mutableThrowOnError", 0, {}, NoDetail, Returned)
           /\ UNCHANGED <<errors, captureErrorDetails, nullsPruned,
                          isFinalSelection, finalSelection, peeledFields,
                          peeledEncoding, saver, result, setters, locals>>

\* *mutableCaptureErrorDetails() = b
SetCaptureErrorDetails ==
    /\ Idle
    /\ \E b \in BOOLEAN :
           /\ captureErrorDetails' = b
           /\ last' = Call("mutableCaptureErrorDetails", 0, {}, NoDetail,
                           Returned)
           /\ UNCHANGED <<errors, throwOnError, nullsPruned, isFinalSelection,
                          finalSelection, peeledFields, peeledEncoding, saver,
                          result, setters, locals>>

\* context.setError(index, exceptionPtr)
CtxSetError ==
    /\ Idle
    /\ \E index \in Rows, d \in Details :
           LET eff == ctxSetError(errors, throwOnError, captureErrorDetails,
                                  index, d)
           IN  /\ errors' = eff.errors
               /\ last' = Call("ctxSetError", index, {}, d, eff.out)
               /\ UNCHANGED <<throwOnError, captureErrorDetails, nullsPruned,
                              isFinalSelection, finalSelection, peeledFields,
                              peeledEncoding, saver, result, setters, locals>>

\* context.applyToSelectedNoThrow(rows, func)
ApplyToSelectedNoThrow ==
    /\ Idle
    /\ \E rows \in Selections :
           \E func \in [rows -> FuncKinds] :
               LET app == applyToSelectedNoThrow(errors, throwOnError,
                              captureErrorDetails, rows, func)
               IN  /\ errors' = app.errors
                   /\ last' = AdapterCall(rows, app.out,
                                  {r \in rows : func[r] = "user"},
                                  {r \in rows : func[r] = "system"},
                                  {r \in rows : func[r] = "std"},
                                  app.visited)
                   /\ UNCHANGED <<throwOnError, captureErrorDetails,
                                  nullsPruned, isFinalSelection,
                                  finalSelection, peeledFields, peeledEncoding,
                                  saver, result, setters, locals>>

\* errors.throwIfErrorAt(index)
ErrThrowIfErrorAt ==
    /\ Idle
    /\ errors # None
    /\ \E index \in Rows :
           /\ last' = Call("throwIfErrorAt", index, {}, NoDetail,
                           throwIfErrorAt(errors[1], index))
           /\ UNCHANGED <<errors, throwOnError, captureErrorDetails,
                          nullsPruned, isFinalSelection, finalSelection,
                          peeledFields, peeledEncoding, saver, result, setters,
                          locals>>

NextErr ==
    \/ TakeOutcome
    \/ EnsureErrorsVectorSize
    \/ ErrEnsureCapacity
    \/ ErrSetError
    \/ ErrSetErrorPtr
    \/ ErrClearError
    \/ ErrThrowFirstError

\* The EvalErrors of a context under any sequence of its own operations.
SpecErr == Init /\ [][NextErr]_vars

\* A context whose captureErrorDetails_ was set either way before.
InitAdapter ==
    /\ errors = None
    /\ throwOnError = TRUE
    /\ captureErrorDetails \in BOOLEAN
    /\ nullsPruned = FALSE
    /\ isFinalSelection = TRUE
    /\ finalSelection = None
    /\ peeledFields = <<>>
    /\ peeledEncoding = NullPtr
    /\ saver = None
    /\ result = None
    /\ setters = <<>>
    /\ locals = NoLocals
    /\ last = NoCall

NextAdapter ==
    \/ TakeOutcome
    \/ SetThrowOnError
    \/ CtxSetError
    \/ ApplyToSelectedNoThrow
    \/ ErrThrowFirstError

\* Error recording through the context and its no-throw adapter, and the
\* driver's throwFirstError.
SpecAdapter == InitAdapter /\ [][NextAdapter]_vars

(***************************************************************************)
(* Peeling scopes: withContextSaver, saveAndReset, restore.                *)
(***************************************************************************)

\* The context's fields that a ContextSaver snapshots.
Ctx == Context(peeledFields, peeledEncoding, nullsPruned, finalSelection,
               errors)

\* f is running inside withContextSaver.
InScope == saver # None

\* f has taken a snapshot.
Snapshot == saver # None /\ saver[1].context

\* The final selections a caller sets.
ScopeSelections == {Rows, {0}}

\* The rows a peeling scope is entered with.
PeeledSelections == {Rows \ {0}}

\* The peeled vectors and encodings a scope installs.
Vectors == {"v1"}

Encodings == {"e1"}

\* The exception of a failing row: an object of the scope it is thrown in.
RowFailure == IF Snapshot THEN "d2" ELSE "d1"

\* The rows with an error in the error set behind errorsPtr.
ErrorRows(errorsPtr) == {r \in Rows : hasErrorAtPtr(errorsPtr, r)}

\* A call that ends a scope: whether a snapshot was taken, its outcome, the
\* rows that had errors in the saved set and in the set of the scope.
ScopeCall(op, rows, out, snap, outer, inner) ==
    [op |-> op, index |-> IF snap THEN 1 ELSE 0, rows |-> rows,
     d |-> NoDetail, out |-> out, user |-> outer, system |-> inner,
     std |-> {}, visited |-> {}, arg |-> <<>>]

\* setPeeled(0, vector)
SetPeeled ==
    /\ Idle
    /\ \E vector \in Vectors :
           /\ peeledFields' = setPeeled(peeledFields, 0, vector)
           /\ last' = Call("setPeeled", 0, {}, NoDetail, Returned)
           /\ UNCHANGED <<errors, throwOnError, captureErrorDetails,
                          nullsPruned, isFinalSelection, finalSelection,
                          peeledEncoding, saver, result, setters, locals>>

\* setPeeledEncoding(peel)
SetPeeledEncoding ==
    /\ Idle
    /\ \E peel \in Encodings :
           /\ peeledEncoding' = peel
           /\ last' = Call("setPeeledEncoding", 0, {}, NoDetail, Returned)
           /\ UNCHANGED <<errors, throwOnError, captureErrorDetails,
                          nullsPruned, isFinalSelection, finalSelection,
                          peeledFields, saver, result, setters, locals>>

\* *mutableNullsPruned() = b
SetNullsPruned ==
    /\ Idle
    /\ \E b \in BOOLEAN :
           /\ nullsPruned' = b
           /\ last' = Call("mutableNullsPruned", 0, {}, NoDetail, Returned)
           /\ UNCHANGED <<errors, throwOnError, captureErrorDetails,
                          isFinalSelection, finalSelection, peeledFields,
                          peeledEncoding, saver, result, setters, locals>>

\* *mutableFinalSelection() = &rows, outside of peeling scopes.
SetFinalSelection ==
    /\ Idle
    /\ \E rows \in ScopeSelections :
           /\ ~InScope
           /\ finalSelection' = Some(rows)
           /\ last' = Call("mutableFinalSelection", 0, rows, NoDetail, Returned)
           /\ UNCHANGED <<errors, throwOnError, captureErrorDetails,
                          nullsPruned, isFinalSelection, peeledFields,
                          peeledEncoding, saver, result, setters, locals>>

\* A kernel's row fails and it calls context.setError(index, RowFailure).
KernelSetError ==
    /\ Idle
    /\ \E index \in Rows :
           LET eff == ctxSetError(errors, throwOnError, captureErrorDetails,
                                  index, RowFailure)
           IN  /\ errors' = eff.errors
               /\ last' = Call("ctxSetError", index, {}, RowFailure, eff.out)
               /\ UNCHANGED <<throwOnError, captureErrorDetails, nullsPruned,
                              isFinalSelection, finalSelection, peeledFields,
                              peeledEncoding, saver, result, setters, locals>>

\* withContextSaver(f) constructs the saver and calls f(saver).
WithContextSaverEnter ==
    /\ Idle
    /\ ~InScope
    /\ saver' = Some(ContextSaver)
    /\ last' = Call("withContextSaver: f(saver)", 0, {}, NoDetail, Returned)
    /\ UNCHANGED <<errors, throwOnError, captureErrorDetails, nullsPruned,
                   isFinalSelection, finalSelection, peeledFields,
                   peeledEncoding, result, setters, locals>>

\* f calls context.saveAndReset(saver, rows).
SaveAndReset ==
    /\ Idle
    /\ \E rows \in PeeledSelections :
           LET sr == saveAndReset(Ctx, saver[1], rows)
           IN  /\ InScope
               /\ ~Snapshot
               /\ saver' = Some(sr.saver)
               /\ peeledFields' = sr.ctx.peeledFields
               /\ peeledEncoding' = sr.ctx.peeledEncoding
               /\ nullsPruned' = sr.ctx.nullsPruned
               /\ finalSelection' = sr.ctx.finalSelection
               /\ errors' = sr.ctx.errors
               /\ last' = Call("saveAndReset", 0, rows, NoDetail, Returned)
               /\ UNCHANGED <<throwOnError, captureErrorDetails,
                              isFinalSelection, result, setters, locals>>

\* A variant of the end of withContextSaver(f) whose restore also makes the
\* selection of the context final again.
WithContextSaverExitFinal ==
    /\ Idle
    /\ \E out \in {Returned, SystemRaised} :
           LET c == withContextSaver(Ctx, saver[1], out)
           IN  /\ InScope
               /\ saver' = None
               /\ peeledFields' = c.peeledFields
               /\ peeledEncoding' = c.peeledEncoding
               /\ nullsPruned' = c.nullsPruned
               /\ finalSelection' = c.finalSelection
               /\ errors' = c.errors
               /\ isFinalSelection' = (Snapshot \/ isFinalSelection)
               /\ last' = ScopeCall("withContextSaver", {}, out, Snapshot,
                                    ErrorRows(saver[1].errors),
                                    ErrorRows(errors))
               /\ UNCHANGED <<throwOnError, captureErrorDetails, result,
                              setters, locals>>

\* The end of withContextSaver(f): f returns, or an exception leaves f and
\* with it withContextSaver; the saver is destroyed.
WithContextSaverExit ==
    /\ Idle
    /\ \E out \in {Returned, SystemRaised} :
           LET c == withContextSaver(Ctx, saver[1], out)
           IN  /\ InScope
               /\ saver' = None
               /\ peeledFields' = c.peeledFields
               /\ peeledEncoding' = c.peeledEncoding
               /\ nullsPruned' = c.nullsPruned
               /\ finalSelection' = c.finalSelection
               /\ errors' = c.errors
               /\ last' = ScopeCall("withContextSaver", {}, out, Snapshot,
                                    ErrorRows(saver[1].errors),
                                    ErrorRows(errors))
               /\ UNCHANGED <<throwOnError, captureErrorDetails,
                              isFinalSelection, result, setters, locals>>

\* A caller with a saver of its own calls saveAndReset(saver, rows) and
\* restore(saver) with nothing in between.
SaveAndResetRestore ==
    /\ Idle
    /\ \E rows \in Selections :
           LET sr == saveAndReset(Ctx, ContextSaver, rows)
               c == restore(sr.ctx, sr.saver)
           IN  /\ ~InScope
               /\ peeledFields' = c.peeledFields
               /\ peeledEncoding' = c.peeledEncoding
               /\ nullsPruned' = c.nullsPruned
               /\ finalSelection' = c.finalSelection
               /\ errors' = c.errors
               /\ last' = Call("saveAndReset; restore", 0, rows, NoDetail,
                               Returned)
               /\ UNCHANGED <<throwOnError, captureErrorDetails,
                              isFinalSelection, saver, result, setters,
                              locals>>

\* A context that saves errors (throwOnError_ false), as under TRY.
InitSave ==
    /\ errors = None
    /\ throwOnError = FALSE
    /\ captureErrorDetails = TRUE
    /\ nullsPruned = FALSE
    /\ isFinalSelection = TRUE
    /\ finalSelection = None
    /\ peeledFields = <<>>
    /\ peeledEncoding = NullPtr
    /\ saver = None
    /\ result = None
    /\ setters = <<>>
    /\ locals = NoLocals
    /\ last = NoCall

NextSave ==
    \/ TakeOutcome
    \/ SetPeeled
    \/ SetPeeledEncoding
    \/ SetNullsPruned
    \/ SetFinalSelection
    \/ KernelSetError
    \/ WithContextSaverEnter
    \/ SaveAndReset
    \/ WithContextSaverExit
    \/ SaveAndResetRestore

\* Peeling scopes over a context that records errors.
SpecSave == InitSave /\ [][NextSave]_vars

(***************************************************************************)
(* Result merging under a final selection.                                 *)
(***************************************************************************)

\* The values of the caller's vectors and of the local results.
ResultValues == {"a", "b"}

LocalValues == {"A", "B"}

\* The vectors of length n over the values of S.
RECURSIVE VectorsOf(_, _)
VectorsOf(n, S) ==
    IF n = 0 THEN {<<>>}
    ELSE {Append(v, x) : v \in VectorsOf(n - 1, S), x \in S}

\* A call on a result slot: the rows, the local result, the outcome.
ResultCall(op, rows, localResult, out) ==
    [op |-> op, index |-> 0, rows |-> rows, d |-> NoDetail, out |-> out,
     user |-> {}, system |-> {}, std |-> {}, visited |-> {},
     arg |-> localResult]

\* The caller's result slot is empty or holds a vector of its own.
SetResult ==
    /\ Idle
    /\ \E n \in 0 .. NumRows :
           \E res \in {None} \cup {Some(v) : v \in VectorsOf(n, ResultValues)} :
               /\ result' = res
               /\ last' = Call("result", 0, {}, NoDetail, Returned)
               /\ UNCHANGED <<errors, throwOnError, captureErrorDetails,
                              nullsPruned, isFinalSelection, finalSelection,
                              peeledFields, peeledEncoding, saver, setters,
                              locals>>

\* *mutableIsFinalSelection() = b
SetIsFinalSelection ==
    /\ Idle
    /\ \E b \in BOOLEAN :
           /\ isFinalSelection' = b
           /\ last' = Call("mutableIsFinalSelection", 0, {}, NoDetail, Returned)
           /\ UNCHANGED <<errors, throwOnError, captureErrorDetails,
                          nullsPruned, finalSelection, peeledFields,
                          peeledEncoding, saver, result, setters, locals>>

\* context.moveOrCopyResult(localResult, rows, result)
MoveOrCopyResult ==
    /\ Idle
    /\ \E rows \in Selections, localResult \in VectorsOf(NumRows, LocalValues) :
           \E preserved \in resultShouldBePreserved(result, isFinalSelection,
                                                    finalSelection, rows) :
               LET m == moveOrCopyResult(localResult, rows, result, preserved)
               IN  /\ result' = m.result
                   /\ last' = ResultCall("moveOrCopyResult", rows, localResult,
                                         m.out)
                   /\ UNCHANGED <<errors, throwOnError, captureErrorDetails,
                                  nullsPruned, isFinalSelection,
                                  finalSelection, peeledFields, peeledEncoding,
                                  saver, setters, locals>>

NextResult ==
    \/ TakeOutcome
    \/ SetResult
    \/ SetIsFinalSelection
    \/ SetFinalSelection
    \/ MoveOrCopyResult

\* Result merging on a context whose final selection the caller sets.
SpecResult == Init /\ [][NextResult]_vars

(***************************************************************************)
(* ScopedFinalSelectionSetter.                                             *)
(***************************************************************************)

\* The deepest nesting of live setters.
MaxSetters == 2

\* The pair a setter works on.
FinalPair(isFinal, final) == [isFinalSelection |-> isFinal,
                              finalSelection |-> final]

\* A live setter: whether it took a snapshot, oldIsFinalSelection_ and
\* oldFinalSelection_, and 'before', the pair of the context when the setter
\* was constructed (a record for the properties; no operation reads it).
Setter(taken, old, before) ==
    [taken |-> taken, oldIsFinalSelection |-> old.isFinalSelection,
     oldFinalSelection |-> old.finalSelection, before |-> before]

\* A variant of the constructor that sets the final selection whenever
\* checkCondition holds, also over one that is already set.
setterConstructInnermost(pair, newFinal, checkCondition, override) ==
    IF override \/ checkCondition
    THEN [pair |-> FinalPair(FALSE, newFinal),
          setter |-> Setter(TRUE, pair, pair)]
    ELSE [pair |-> pair, setter |-> Setter(FALSE, pair, pair)]

\* A variant of the constructor that sets the final selection only when the
\* context's selection is final, whatever override is.
setterConstructNoOverride(pair, newFinal, checkCondition, override) ==
    IF checkCondition /\ pair.isFinalSelection
    THEN [pair |-> FinalPair(FALSE, newFinal),
          setter |-> Setter(TRUE, pair, pair)]
    ELSE [pair |-> pair, setter |-> Setter(FALSE, pair, pair)]

\* ScopedFinalSelectionSetter(evalCtx, finalSelection, checkCondition,
\* override): sets the final selection and clears isFinalSelection_ when
\* override, or when checkCondition and the selection of the context is
\* final; the setter keeps the old pair.
setterConstruct(pair, newFinal, checkCondition, override) ==
    IF override \/ (checkCondition /\ pair.isFinalSelection)
    THEN [pair |-> FinalPair(FALSE, newFinal),
          setter |-> Setter(TRUE, pair, pair)]
    ELSE [pair |-> pair, setter |-> Setter(FALSE, pair, pair)]

\* A variant of the destructor that puts back the final selection and
\* leaves isFinalSelection_ as it is.
setterDestroyKeepFlag(pair, setter) ==
    IF setter.taken
    THEN FinalPair(pair.isFinalSelection, setter.oldFinalSelection)
    ELSE pair

\* ~ScopedFinalSelectionSetter(): puts the old pair back if the setter took
\* a snapshot.
setterDestroy(pair, setter) ==
    IF setter.taken
    THEN FinalPair(setter.oldIsFinalSelection, setter.oldFinalSelection)
    ELSE pair

\* A construction or destruction of a setter: the final selection given,
\* checkCondition, override, and whether the setter took a snapshot.
SetterCall(op, newFinal, checkCondition, override, taken) ==
    [op |-> op, index |-> 0, rows |-> newFinal, d |-> NoDetail,
     out |-> Returned, user |-> {}, system |-> {}, std |-> {},
     visited |-> {}, arg |-> <<checkCondition, override, taken>>]

\* ScopedFinalSelectionSetter setter(context, &newFinal, checkCondition,
\* override)
SetterConstruct ==
    /\ Idle
    /\ \E newFinal \in ScopeSelections, checkCondition, override \in BOOLEAN :
           LET c == setterConstruct(FinalPair(isFinalSelection, finalSelection),
                                    Some(newFinal), checkCondition, override)
           IN  /\ Len(setters) < MaxSetters
               /\ isFinalSelection' = c.pair.isFinalSelection
               /\ finalSelection' = c.pair.finalSelection
               /\ setters' = Append(setters, c.setter)
               /\ last' = SetterCall("ScopedFinalSelectionSetter", newFinal,
                                     checkCondition, override, c.setter.taken)
               /\ UNCHANGED <<errors, throwOnError, captureErrorDetails,
                              nullsPruned, peeledFields, peeledEncoding, saver,
                              result, locals>>

\* The innermost live setter goes out of scope.
SetterDestroy ==
    /\ Idle
    /\ LET setter == setters[Len(setters)]
           pair == setterDestroy(FinalPair(isFinalSelection, finalSelection),
                                 setter)
       IN  /\ setters # <<>>
           /\ isFinalSelection' = pair.isFinalSelection
           /\ finalSelection' = pair.finalSelection
           /\ setters' = SubSeq(setters, 1, Len(setters) - 1)
           /\ last' = SetterCall("~ScopedFinalSelectionSetter", {}, FALSE,
                                 FALSE, setter.taken)
           /\ UNCHANGED <<errors, throwOnError, captureErrorDetails,
                          nullsPruned, peeledFields, peeledEncoding, saver,
                          result, locals>>

\* A context whose final selection and isFinalSelection_ the caller has set
\* in any of the ways the accessors allow.
InitSetter ==
    /\ errors = None
    /\ throwOnError = TRUE
    /\ captureErrorDetails = TRUE
    /\ nullsPruned = FALSE
    /\ isFinalSelection \in BOOLEAN
    /\ finalSelection \in {None} \cup {Some(rows) : rows \in ScopeSelections}
    /\ peeledFields = <<>>
    /\ peeledEncoding = NullPtr
    /\ saver = None
    /\ result = None
    /\ setters = <<>>
    /\ locals = NoLocals
    /\ last = NoCall

NextSetter ==
    \/ TakeOutcome
    \/ SetterConstruct
    \/ SetterDestroy

\* Nested ScopedFinalSelectionSetters, destroyed innermost first.
SpecSetter == InitSetter /\ [][NextSetter]_vars

(***************************************************************************)
(* Copies between error sets.                                              *)
(***************************************************************************)

\* A position of an error vector: its null flag and its value.
Cell(isNull, value) == [null |-> isNull, value |-> value]

\* The error sets of size n whose positions are cells of 'cells'.
RECURSIVE ErrorSetsOf(_, _)
ErrorSetsOf(n, cells) ==
    IF n = 0 THEN {EvalErrors(0)}
    ELSE {[nulls |-> Append(e.nulls, c.null),
           values |-> Append(e.values, c.value)] :
              e \in ErrorSetsOf(n - 1, cells), c \in cells}

\* The error sets of every size up to NumRows over 'cells'.
ErrorSetsUpTo(cells) ==
    UNION {ErrorSetsOf(n, cells) : n \in 0 .. NumRows}

\* A row without an error, with an error without details, with an error
\* with the exception d.
CellsWith(d) ==
    {Cell(TRUE, NoDetail), Cell(FALSE, NoDetail), Cell(FALSE, d)}

\* The error sets copied into: their exceptions are "d1".
SelfSets == ErrorSetsUpTo(CellsWith("d1"))

\* The error sets copied from: their exceptions are "d2".
FromSets == ErrorSetsUpTo(CellsWith("d2"))

\* A copy from another error set: the target row, the rows, the other set
\* and the source row.
CopyCall(op, toIndex, rows, from, fromIndex) ==
    [op |-> op, index |-> toIndex, rows |-> rows, d |-> NoDetail,
     out |-> Returned, user |-> {}, system |-> {}, std |-> {},
     visited |-> {}, arg |-> <<from, fromIndex>>]

\* errors()->copyError(from, fromIndex, toIndex), 'from' out of F
CopyError(F) ==
    /\ Idle
    /\ errors # None
    /\ \E from \in F, fromIndex \in Rows, toIndex \in Rows :
            /\ errors' = Some(copyError(errors[1], from, fromIndex, toIndex))
            /\ last' = CopyCall("copyError", toIndex, {}, from, fromIndex)
            /\ UNCHANGED <<throwOnError, captureErrorDetails, nullsPruned,
                           isFinalSelection, finalSelection, peeledFields,
                           peeledEncoding, saver, result, setters, locals>>

\* errors()->copyErrors(rows, from), 'from' out of F
CopyErrorsRows(F) ==
    /\ Idle
    /\ errors # None
    /\ \E from \in F, rows \in Selections :
            /\ errors' = Some(copyErrorsRows(errors[1], rows, from))
            /\ last' = CopyCall("copyErrorsRows", 0, rows, from, 0)
            /\ UNCHANGED <<throwOnError, captureErrorDetails, nullsPruned,
                           isFinalSelection, finalSelection, peeledFields,
                           peeledEncoding, saver, result, setters, locals>>

\* errors()->copyErrors(from), 'from' out of F
CopyErrors(F) ==
    /\ Idle
    /\ errors # None
    /\ \E from \in F :
            /\ errors' = Some(copyErrors(errors[1], from))
            /\ last' = CopyCall("copyErrors", 0, {}, from, 0)
            /\ UNCHANGED <<throwOnError, captureErrorDetails, nullsPruned,
                           isFinalSelection, finalSelection, peeledFields,
                           peeledEncoding, saver, result, setters, locals>>

\* context.moveAppendErrors(sink), the sink null or out of F
MoveAppendErrors(F) ==
    /\ Idle
    /\ \E sink \in {None} \cup {Some(e) : e \in F} :
           /\ errors' = None
           /\ last' = [op |-> "moveAppendErrors", index |-> 0, rows |-> {},
                       d |-> NoDetail, out |-> Returned, user |-> {},
                       system |-> {}, std |-> {}, visited |-> {},
                       arg |-> <<sink, moveAppendErrors(errors, sink)>>]
           /\ UNCHANGED <<throwOnError, captureErrorDetails, nullsPruned,
                          isFinalSelection, finalSelection, peeledFields,
                          peeledEncoding, saver, result, setters, locals>>

\* A context that has recorded errors, with and without details.
InitCopy ==
    /\ errors \in {Some(e) : e \in SelfSets}
    /\ throwOnError = FALSE
    /\ captureErrorDetails = TRUE
    /\ nullsPruned = FALSE
    /\ isFinalSelection = TRUE
    /\ finalSelection = None
    /\ peeledFields = <<>>
    /\ peeledEncoding = NullPtr
    /\ saver = None
    /\ result = None
    /\ setters = <<>>
    /\ locals = NoLocals
    /\ last = NoCall

NextCopy ==
    \/ TakeOutcome
    \/ CopyError(FromSets)
    \/ CopyErrorsRows(FromSets)
    \/ CopyErrors(FromSets)
    \/ MoveAppendErrors(FromSets)

\* Copies of errors from other error sets into the one of the context.
SpecCopy == InitCopy /\ [][NextCopy]_vars

(***************************************************************************)
(* Merging three error sets with copyErrors(from): a->copyErrors(b), then  *)
(* a->copyErrors(c).  The label holds the three sets as they were.         *)
(***************************************************************************)

\* The error sets merged last: their exceptions are "d3".
ThirdSets == ErrorSetsUpTo({Cell(TRUE, NoDetail), Cell(FALSE, "d3")})

MergeCall(op, a, b, c) ==
    [op |-> op, index |-> 0, rows |-> {}, d |-> NoDetail, out |-> Returned,
     user |-> {}, system |-> {}, std |-> {}, visited |-> {},
     arg |-> <<a, b, c>>]

\* errors()->copyErrors(b)
MergeFirst ==
    /\ last.op = "operands"
    /\ errors' = Some(copyErrors(errors[1], last.arg[2]))
    /\ last' = [last EXCEPT !.op = "merge1"]
    /\ UNCHANGED <<throwOnError, captureErrorDetails, nullsPruned,
                   isFinalSelection, finalSelection, peeledFields,
                   peeledEncoding, saver, result, setters, locals>>

\* errors()->copyErrors(c)
MergeSecond ==
    /\ last.op = "merge1"
    /\ errors' = Some(copyErrors(errors[1], last.arg[3]))
    /\ last' = [last EXCEPT !.op = "merge2"]
    /\ UNCHANGED <<throwOnError, captureErrorDetails, nullsPruned,
                   isFinalSelection, finalSelection, peeledFields,
                   peeledEncoding, saver, result, setters, locals>>

\* A context whose error set is a, and two more error sets b and c.
InitMerge ==
    \E a \in SelfSets, b \in FromSets, c \in ThirdSets :
        /\ errors = Some(a)
        /\ throwOnError = FALSE
        /\ captureErrorDetails = TRUE
        /\ nullsPruned = FALSE
        /\ isFinalSelection = TRUE
        /\ finalSelection = None
        /\ peeledFields = <<>>
        /\ peeledEncoding = NullPtr
        /\ saver = None
        /\ result = None
        /\ setters = <<>>
        /\ locals = NoLocals
        /\ last = MergeCall("operands", a, b, c)

NextMerge ==
    \/ MergeFirst
    \/ MergeSecond

\* Two copyErrors(from) in a row into the error set of the context.
SpecMerge == InitMerge /\ [][NextMerge]_vars

(***************************************************************************)
(* Every operation that writes an EvalErrors, the copies included.         *)
(***************************************************************************)

\* The error sets copied from: rows without an error and rows with the
\* exception "d2".
CopiedSets == ErrorSetsUpTo({Cell(TRUE, NoDetail), Cell(FALSE, "d2")})

NextCapacity ==
    \/ TakeOutcome
    \/ EnsureErrorsVectorSize
    \/ ErrEnsureCapacity
    \/ ErrSetError
    \/ ErrSetErrorPtr
    \/ ErrClearError
    \/ CopyError(CopiedSets)
    \/ CopyErrorsRows(CopiedSets)
    \/ CopyErrors(CopiedSets)

\* The EvalErrors of a context under any sequence of the operations that
\* write it.
SpecCapacity == Init /\ [][NextCapacity]_vars

(***************************************************************************)
(* Construction of a context and the flags a caller sets on it.            *)
(***************************************************************************)

\* A variant of the constructor whose context saves errors from the start.
EvalCtxSavingErrors ==
    [errors |-> None, throwOnError |-> FALSE, captureErrorDetails |-> TRUE,
     nullsPruned |-> FALSE, isFinalSelection |-> TRUE,
     finalSelection |-> None, peeledFields |-> <<>>,
     peeledEncoding |-> NullPtr]

\* EvalCtx(execCtx, exprSet, row): the members after construction.
EvalCtx ==
    [errors |-> None, throwOnError |-> TRUE, captureErrorDetails |-> TRUE,
     nullsPruned |-> FALSE, isFinalSelection |-> TRUE,
     finalSelection |-> None, peeledFields |-> <<>>,
     peeledEncoding |-> NullPtr]

\* EvalCtx context(execCtx, exprSet, row): the caller goes on with a new
\* context.  The label holds throwOnError_ and errors_ of the one before.
Construct ==
    /\ Idle
    /\ errors' = EvalCtx.errors
    /\ throwOnError' = EvalCtx.throwOnError
    /\ captureErrorDetails' = EvalCtx.captureErrorDetails
    /\ nullsPruned' = EvalCtx.nullsPruned
    /\ isFinalSelection' = EvalCtx.isFinalSelection
    /\ finalSelection' = EvalCtx.finalSelection
    /\ peeledFields' = EvalCtx.peeledFields
    /\ peeledEncoding' = EvalCtx.peeledEncoding
    /\ last' = [Call("EvalCtx", 0, {}, NoDetail, Returned)
                    EXCEPT !.arg = <<throwOnError, errors>>]
    /\ UNCHANGED <<saver, result, setters, locals>>

\* context.deselectErrors(rows); the label holds rows before and after.
DeselectErrors ==
    /\ Idle
    /\ \E rows \in Selections :
           /\ last' = [Call("deselectErrors", 0, rows, NoDetail, Returned)
                           EXCEPT !.arg = <<deselectErrors(errors, rows)>>]
           /\ UNCHANGED <<errors, throwOnError, captureErrorDetails,
                          nullsPruned, isFinalSelection, finalSelection,
                          peeledFields, peeledEncoding, saver, result, setters,
                          locals>>

InitConstruct ==
    /\ errors = EvalCtx.errors
    /\ throwOnError = EvalCtx.throwOnError
    /\ captureErrorDetails = EvalCtx.captureErrorDetails
    /\ nullsPruned = EvalCtx.nullsPruned
    /\ isFinalSelection = EvalCtx.isFinalSelection
    /\ finalSelection = EvalCtx.finalSelection
    /\ peeledFields = EvalCtx.peeledFields
    /\ peeledEncoding = EvalCtx.peeledEncoding
    /\ saver = None
    /\ result = None
    /\ setters = <<>>
    /\ locals = NoLocals
    /\ last = NoCall

NextConstruct ==
    \/ TakeOutcome
    \/ Construct
    \/ SetThrowOnError
    \/ SetCaptureErrorDetails
    \/ SetNullsPruned
    \/ SetIsFinalSelection
    \/ SetFinalSelection
    \/ CtxSetError
    \/ ErrClearError
    \/ DeselectErrors

\* Contexts constructed one after the other, their flags set by the caller
\* and errors recorded in them.
SpecConstruct == InitConstruct /\ [][NextConstruct]_vars

(***************************************************************************)
(* Scratch handles constructed, used, moved and destroyed.                 *)
(***************************************************************************)

\* A call on handle h; arg holds the kind and the choice of constructor, or
\* the handle moved from.
LocalCall(op, h, arg) ==
    [Call(op, h, {}, NoDetail, Returned) EXCEPT !.arg = arg]

Live(h) == locals.handles[h].state = "live"

\* The next handle to construct.
Unborn(h) ==
    /\ locals.handles[h].state = "unborn"
    /\ \A g \in Handles : g < h => locals.handles[g].state # "unborn"

UnchangedCtx ==
    UNCHANGED <<errors, throwOnError, captureErrorDetails, nullsPruned,
                isFinalSelection, finalSelection, peeledFields,
                peeledEncoding, saver, result, setters>>

\* LocalSelectivityVector h(context [, size]), LocalSingleRow h(context,
\* row), LocalDecodedVector h(context [, vector, rows])
LocalConstruct ==
    /\ Idle
    /\ \E h \in Handles, kind \in HandleKinds, sized \in BOOLEAN :
           /\ Unborn(h)
           /\ kind = "LocalSingleRow" => sized
           /\ sized => canGetVector(locals, PoolOf(kind))
           /\ locals' = localConstruct(locals, h, kind, sized)
           /\ last' = LocalCall("construct", h, <<kind, sized>>)
           /\ UnchangedCtx

\* h.get(size), h.get(size, value), h.get(other), h.get()
LocalGet ==
    /\ Idle
    /\ \E h \in Handles :
           /\ Live(h)
           /\ locals.handles[h].kind # "LocalSingleRow"
           /\ locals.handles[h].vector = 0 =>
                  canGetVector(locals, PoolOf(locals.handles[h].kind))
           /\ locals' = localGet(locals, h)
           /\ last' = LocalCall("get", h, <<locals.handles[h].vector>>)
           /\ UnchangedCtx

\* h.allocate(size)
LocalAllocate ==
    /\ Idle
    /\ \E h \in Handles :
           /\ Live(h)
           /\ locals.handles[h].kind = "LocalSelectivityVector"
           /\ locals.handles[h].vector = 0 => canGetVector(locals, "sv")
           /\ locals' = localAllocate(locals, h)
           /\ last' = LocalCall("allocate", h, <<locals.handles[h].vector>>)
           /\ UnchangedCtx

\* LocalDecodedVector h(std::move(other))
LocalMoveConstruct ==
    /\ Idle
    /\ \E h \in Handles, other \in Handles :
           /\ Unborn(h)
           /\ Live(other)
           /\ locals.handles[other].kind = "LocalDecodedVector"
           /\ locals' = localMoveConstruct(locals, h, other)
           /\ last' = LocalCall("moveConstruct", h, <<other>>)
           /\ UnchangedCtx

\* h = std::move(other)
LocalMoveAssign ==
    /\ Idle
    /\ \E h \in Handles, other \in Handles :
           /\ h # other
           /\ Live(h)
           /\ Live(other)
           /\ locals.handles[h].kind = "LocalDecodedVector"
           /\ locals.handles[other].kind = "LocalDecodedVector"
           /\ locals' = localMoveAssign(locals, h, other)
           /\ last' = LocalCall("moveAssign", h, <<other>>)
           /\ UnchangedCtx

\* h goes out of scope
LocalDestroy ==
    /\ Idle
    /\ \E h \in Handles :
           /\ Live(h)
           /\ locals' = localDestroy(locals, h)
           /\ last' = LocalCall("destroy", h, <<locals.handles[h].vector>>)
           /\ UnchangedCtx

NextLocal ==
    \/ TakeOutcome
    \/ LocalConstruct
    \/ LocalGet
    \/ LocalAllocate
    \/ LocalMoveConstruct
    \/ LocalMoveAssign
    \/ LocalDestroy

\* The scratch handles of an evaluation over one ExecCtx.
SpecLocal == Init /\ [][NextLocal]_vars

(***************************************************************************)
(* check_overflow evaluated on batches, with errors thrown or saved.       *)
(***************************************************************************)

\* check_overflow(values, nullOnOverflow, toType) over rows, into an empty
\* result.  The label holds the values, nullOnOverflow and the type.
CheckOverflow ==
    /\ Idle
    /\ result = None
    /\ \E rows \in Selections, values \in VectorsOf(NumRows, OverflowValues),
          toType \in ToTypes, nullOnOverflow \in BOOLEAN :
           LET k == checkOverflow(rows, values, toType, nullOnOverflow)
           IN  /\ result' = Some(k.result)
               /\ last' = [Call("checkOverflow", 0, rows, NoDetail, k.out)
                               EXCEPT !.visited = k.visited,
                                      !.arg = <<values, nullOnOverflow,
                                                toType>>]
               /\ UNCHANGED <<errors, throwOnError, captureErrorDetails,
                              nullsPruned, isFinalSelection, finalSelection,
                              peeledFields, peeledEncoding, saver, setters,
                              locals>>

\* The caller takes the result vector away.
TakeResult ==
    /\ Idle
    /\ result # None
    /\ result' = None
    /\ last' = Call("takeResult", 0, {}, NoDetail, Returned)
    /\ UNCHANGED <<errors, throwOnError, captureErrorDetails, nullsPruned,
                   isFinalSelection, finalSelection, peeledFields,
                   peeledEncoding, saver, setters, locals>>

NextOverflow ==
    \/ TakeOutcome
    \/ SetThrowOnError
    \/ CheckOverflow
    \/ TakeResult

\* The kernel of check_overflow called by an evaluation that throws errors
\* or saves them.
SpecOverflow == Init /\ [][NextOverflow]_vars

(***************************************************************************)
(* round_decimal over the decimal types and the scales.                    *)
(***************************************************************************)

\* The scales asked for go from -MaxRoundScale to MaxRoundScale.
MaxRoundScale == 39

\* round_decimal(DECIMAL(fromPrecision, fromScale), scale); the label holds
\* the three and the type of the result.
RoundDecimal ==
    /\ Idle
    /\ \E fromPrecision \in 1 .. MaxPrecision :
           \E fromScale \in 0 .. fromPrecision,
              scale \in (0 - MaxRoundScale) .. MaxRoundScale :
               /\ last' = [Call("roundDecimal", 0, {}, NoDetail, Returned)
                               EXCEPT !.arg =
                                   <<fromPrecision, fromScale, scale,
                                     roundDecimalType(fromPrecision,
                                                      fromScale, scale)>>]
               /\ UNCHANGED <<errors, throwOnError, captureErrorDetails,
                              nullsPruned, isFinalSelection, finalSelection,
                              peeledFields, peeledEncoding, saver, result,
                              setters, locals>>

NextRound ==
    \/ TakeOutcome
    \/ RoundDecimal

\* round_decimal called with every decimal type and scale.
SpecRound == Init /\ [][NextRound]_vars

(***************************************************************************)
(* Peeled fields set one by one and fields read.                           *)
(***************************************************************************)

\* setPeeled(index, vector)
SetPeeledField ==
    /\ Idle
    /\ \E index \in Fields, vector \in PeeledVectors :
           /\ peeledFields' = setPeeled(peeledFields, index, vector)
           /\ last' = [Call("setPeeledField", index, {}, NoDetail, Returned)
                           EXCEPT !.arg = <<vector>>]
           /\ UNCHANGED <<errors, throwOnError, captureErrorDetails,
                          nullsPruned, isFinalSelection, finalSelection,
                          peeledEncoding, saver, result, setters, locals>>

\* getField(index); the label holds the vector it gave.
GetField ==
    /\ Idle
    /\ \E index \in Fields :
           \E field \in getField(peeledFields, index) :
               /\ last' = [Call("getField", index, {}, NoDetail, Returned)
                               EXCEPT !.arg = <<field>>]
               /\ UNCHANGED <<errors, throwOnError, captureErrorDetails,
                              nullsPruned, isFinalSelection, finalSelection,
                              peeledFields, peeledEncoding, saver, result,
                              setters, locals>>

NextField ==
    \/ TakeOutcome
    \/ SetPeeledField
    \/ GetField

\* Field access on a context whose fields are peeled one by one.
SpecField == Init /\ [][NextField]_vars

(***************************************************************************)
(* The flags of the context across a peeling scope.                        *)
(***************************************************************************)

\* Inside a scope that has taken its snapshot, the expression sets
\* throwOnError_, captureErrorDetails_ or isFinalSelection_.
ScopeSetThrowOnError == Snapshot /\ SetThrowOnError

ScopeSetCaptureErrorDetails == Snapshot /\ SetCaptureErrorDetails

ScopeSetIsFinalSelection == Snapshot /\ SetIsFinalSelection

NextFlags ==
    \/ TakeOutcome
    \/ SetPeeled
    \/ WithContextSaverEnter
    \/ SaveAndReset
    \/ ScopeSetThrowOnError
    \/ ScopeSetCaptureErrorDetails
    \/ ScopeSetIsFinalSelection
    \/ WithContextSaverExit
    \/ SaveAndResetRestore

\* Peeling scopes in which the flags of the context are set; outside of the
\* scopes nothing sets them.
SpecFlags == InitSave /\ [][NextFlags]_vars

(***************************************************************************)
(* throwIfErrorAt on errors recorded with and without details.             *)
(***************************************************************************)
NextThrow ==
    \/ TakeOutcome
    \/ SetThrowOnError
    \/ SetCaptureErrorDetails
    \/ CtxSetError
    \/ ErrSetError
    \/ ErrSetErrorPtr
    \/ ErrClearError
    \/ ErrThrowIfErrorAt

\* A context whose errors are recorded through the context, under either
\* policy, and directly on its EvalErrors, and read with throwIfErrorAt.
SpecThrow == Init /\ [][NextThrow]_vars

(***************************************************************************)
(* Properties of EvalErrors.                                               *)
(***************************************************************************)

\* C1: setError(index, exceptionPtr) on a row that already has an error, with
\* or without details, changes nothing; on a row without an error it records
\* the error with the given exception.  So of the calls set(r, d_1),
\* set(r, d_2), ... with no clearError(r) in between, d_1 is the one stored.
C1_FirstWriterWins ==
    [][last'.op = "setErrorPtr" =>
         LET e == errors[1]
             r == last'.index
         IN  IF hasErrorAt(e, r)
             THEN errors' = errors
             ELSE /\ hasErrorAt(errors'[1], r)
                  /\ valueAt(errors'[1], r) = last'.d]_vars

\* C1: a setError(index, exceptionPtr) that found an error with another
\* exception, or without details, at its row, and left it.
C1_Witness ==
    /\ last.op = "setErrorPtr"
    /\ errors # None
    /\ hasErrorAt(errors[1], last.index)
    /\ valueAt(errors[1], last.index) # last.d

\* The selected rows of 'rows' that have an error in e.
ErroredIn(e, rows) == {r \in rows : hasErrorAt(e, r)}

\* C8: throwFirstError(rows) rethrows the exception stored at the smallest
\* selected row that has an error, returns normally when no selected row has
\* one (errors at rows that are not selected never count), and leaves the
\* error set as it was.
C8_ThrowFirstError ==
    [][last'.op = "throwFirstError" =>
         LET e == errors[1]
             hit == ErroredIn(e, last'.rows)
         IN  /\ errors' = errors
             /\ IF hit = {}
                THEN last'.out = Returned
                ELSE /\ last'.out # Returned
                     /\ valueAt(e, Min(hit)) # NoDetail =>
                            last'.out = Raised(valueAt(e, Min(hit)))]_vars

\* C8: a throwFirstError that skipped a selected row without an error and
\* rethrew the exception of a later selected row, while a row that was not
\* selected held another exception.
C8_Witness ==
    /\ last.op = "throwFirstError"
    /\ last.out.kind = "raised"
    /\ \E r \in last.rows : r < Min(ErroredIn(errors[1], last.rows))
    /\ \E r \in Rows \ last.rows :
           /\ hasErrorAt(errors[1], r)
           /\ valueAt(errors[1], r) \notin {NoDetail, last.out.error}

(***************************************************************************)
(* Properties of peeling scopes.                                           *)
(***************************************************************************)

\* C2: saveAndReset moves the errors to the saver and leaves the context
\* without errors; when the scope ends with a restore, every row that has an
\* error in the saved set or in the set of the scope has one afterwards, and
\* a row with an error in the saved set keeps that error's exception.
C2_RestoreMergesErrors ==
    [][/\ last'.op = "saveAndReset" =>
            errors' = None /\ saver'[1].errors = errors
       /\ (last'.op = "withContextSaver" /\ last'.out = Returned
               /\ Snapshot) =>
            \A r \in Rows :
                /\ (hasErrorAtPtr(saver[1].errors, r)
                        \/ hasErrorAtPtr(errors, r)) =>
                       hasErrorAtPtr(errors', r)
                /\ hasErrorAtPtr(saver[1].errors, r) =>
                       errorAtPtr(errors', r) =
                           errorAtPtr(saver[1].errors, r)]_vars

\* C2: a scope that ended with a restore, where a row had an error in the
\* saved set and another in the scope and holds the saved exception, and a
\* row with an error in the scope only holds the exception of the scope.
C2_Witness ==
    /\ last.op = "withContextSaver"
    /\ last.out = Returned
    /\ last.index = 1
    /\ \E r \in last.user \cap last.system : errorAtPtr(errors, r) = "d1"
    /\ \E r \in last.system \ last.user : errorAtPtr(errors, r) = "d2"

\* C3: saveAndReset(saver, rows) followed at once by restore(saver) leaves
\* the peeled fields, the peeled encoding, nullsPruned_, the final selection
\* and the error set as they were.
C3_SaveRestoreTransparent ==
    [][last'.op = "saveAndReset; restore" =>
         /\ peeledFields' = peeledFields
         /\ peeledEncoding' = peeledEncoding
         /\ nullsPruned' = nullsPruned
         /\ finalSelection' = finalSelection
         /\ errors' = errors]_vars

\* C3: a saveAndReset and restore over rows other than the final selection,
\* on a context with peeled fields, a peeled encoding, nulls pruned, a final
\* selection and an error with its exception.
C3_Witness ==
    /\ last.op = "saveAndReset; restore"
    /\ peeledFields # <<>>
    /\ peeledEncoding # NullPtr
    /\ nullsPruned
    /\ finalSelection \notin {None, Some(last.rows)}
    /\ \E r \in Rows : errorAtPtr(errors, r) = "d1"

\* C4 as claimed: when f took a snapshot, the context has the snapshot's
\* peeled fields, peeled encoding, nullsPruned_ and final selection after
\* withContextSaver, however f ended.
C4_AsClaimed ==
    [][(last'.op = "withContextSaver" /\ Snapshot) =>
         /\ peeledFields' = saver[1].peeled
         /\ peeledEncoding' = saver[1].peeledEncoding
         /\ nullsPruned' = saver[1].nullsPruned
         /\ finalSelection' = saver[1].finalSelection]_vars

\* C4 amended: withContextSaver restores the context exactly when f took a
\* snapshot and returned; then the snapshot's fields are back.  When an
\* exception leaves f, or f took no snapshot, the context stays as f left
\* it: after a saveAndReset, in the state of the scope, the saved errors
\* gone with the saver.
C4_RestoreOnReturn ==
    [][last'.op = "withContextSaver" =>
         IF last'.out = Returned /\ Snapshot
         THEN /\ peeledFields' = saver[1].peeled
              /\ peeledEncoding' = saver[1].peeledEncoding
              /\ nullsPruned' = saver[1].nullsPruned
              /\ finalSelection' = saver[1].finalSelection
              /\ errors' = moveAppendErrors(errors, saver[1].errors)
         ELSE UNCHANGED <<peeledFields, peeledEncoding, nullsPruned,
                          finalSelection, errors, locals>>]_vars

\* C4: a withContextSaver that an exception of f left after f's
\* saveAndReset: the final selection is still the one of the scope and the
\* errors saved at the snapshot are not in the context.
C4_Witness ==
    /\ last.op = "withContextSaver"
    /\ last.out = SystemRaised
    /\ last.index = 1
    /\ finalSelection # None
    /\ last.user # {}
    /\ last.user \cap ErrorRows(errors) = {}

(***************************************************************************)
(* Properties of error recording through the context.                      *)
(***************************************************************************)

\* The rows of 'rows' up to and including row r.
UpTo(rows, r) == {x \in rows : x <= r}

\* The errors of 'before' are all in 'after', each with its detail.
ErrorsKept(before, after) ==
    \A x \in Rows :
        hasErrorAtPtr(before, x) =>
            errorAtPtr(after, x) = errorAtPtr(before, x)

C6_SystemFailureEscapes ==
    [][(last'.op = "applyToSelectedNoThrow"
            /\ last'.system # {}
            /\ Min(last'.system) \in last'.visited) =>
         LET r == Min(last'.system)
         IN  /\ last'.out = SystemRaised
             /\ last'.visited = UpTo(last'.rows, r)
             /\ errorAtPtr(errors', r) = errorAtPtr(errors, r)
             /\ ErrorsKept(errors, errors')
             /\ \A x \in last'.user \cup last'.std :
                    x < r => hasErrorAtPtr(errors', x)]_vars

\* C6: an adapter call that a system failure left at row r, after an error
\* was recorded at an earlier row in the same call and r got none, with a
\* selected row after r.
C6_Witness ==
    /\ last.op = "applyToSelectedNoThrow"
    /\ last.out = SystemRaised
    /\ last.system # {}
    /\ ~hasErrorAtPtr(errors, Min(last.system))
    /\ \E x \in last.user : x < Min(last.system) /\ hasErrorAtPtr(errors, x)
    /\ \E x \in last.rows : x > Min(last.system) /\ x \notin last.visited

C9_ResultPreserved ==
    [][(/\ last'.op = "moveOrCopyResult"
        /\ result # None
        /\ ~isFinalSelection
        /\ finalSelection # None
        /\ finalSelection[1] # last'.rows) =>
         /\ last'.out = Returned
         /\ result' # None
         /\ \A i \in Rows :
                IF i \in last'.rows
                THEN /\ i < Len(result'[1])
                     /\ result'[1][i + 1] = last'.arg[i + 1]
                ELSE i < Len(result[1]) =>
                         /\ i < Len(result'[1])
                         /\ result'[1][i + 1] = result[1][i + 1]]_vars

\* C9: a moveOrCopyResult under a final selection other than its rows, after
\* which a row of rows holds the local value and a row outside still holds
\* a value of the caller's vector.
C9_Witness ==
    /\ last.op = "moveOrCopyResult"
    /\ ~isFinalSelection
    /\ finalSelection \notin {None, Some(last.rows)}
    /\ result # None
    /\ \E i \in last.rows : result[1][i + 1] = last.arg[i + 1]
    /\ \E i \in Rows \ last.rows :
           i < Len(result[1]) /\ result[1][i + 1] \in ResultValues

\* C10: whenever finalSelection_ is null, moveOrCopyResult returns and the
\* result is the local result (resultShouldBePreserved gave false).
C10_UnsetFinalSelectionMoves ==
    [][(last'.op = "moveOrCopyResult" /\ finalSelection = None) =>
         /\ last'.out = Returned
         /\ result' = Some(last'.arg)]_vars

(***************************************************************************)
(* Properties of ScopedFinalSelectionSetter.                               *)
(***************************************************************************)

\* C11: the constructor sets the final selection exactly when override is
\* true, or checkCondition is true and isFinalSelection_ is true: then the
\* final selection is the one given and isFinalSelection_ is false;
\* otherwise both stay as they were.
C11_SetterInstalls ==
    [][last'.op = "ScopedFinalSelectionSetter" =>
         LET checkCondition == last'.arg[1]
             override == last'.arg[2]
         IN  IF override \/ (checkCondition /\ isFinalSelection)
             THEN /\ finalSelection' = Some(last'.rows)
                  /\ isFinalSelection' = FALSE
             ELSE UNCHANGED <<finalSelection, isFinalSelection>>]_vars

\* C11: a setter constructed with override on a context whose selection was
\* already not final, inside a setter that left the context as it was: the
\* final selection is the new one.
C11_Witness ==
    /\ last.op = "ScopedFinalSelectionSetter"
    /\ last.arg[2]
    /\ Len(setters) = 2
    /\ ~setters[1].taken
    /\ ~setters[2].before.isFinalSelection
    /\ setters[2].before.finalSelection # Some(last.rows)
    /\ finalSelection = Some(last.rows)

\* C12: when the innermost live setter is destroyed, isFinalSelection_ and
\* the final selection are what they were just before it was constructed;
\* so after the outermost they are the original ones.
C12_SetterRestores ==
    [][last'.op = "~ScopedFinalSelectionSetter" =>
         FinalPair(isFinalSelection', finalSelection') =
             setters[Len(setters)].before]_vars

\* C12: the outermost setter, which had set the final selection of a context
\* whose selection was final, has been destroyed: the selection is final
\* again and the final selection is the one from before.
C12_Witness ==
    /\ last.op = "~ScopedFinalSelectionSetter"
    /\ last.arg[3]
    /\ setters = <<>>
    /\ isFinalSelection
    /\ finalSelection # None

(***************************************************************************)
(* Properties of copies between error sets.                                *)
(***************************************************************************)

\* The rows below n have in 'after' the error status and detail they have
\* in 'before', but for the rows of 'except'.
SameErrorsBut(before, after, except) ==
    \A x \in Rows \ except : errorAt(after, x) = errorAt(before, x)

\* C13: copyError(from, fromIndex, toIndex) leaves the set unchanged when it
\* has an error at toIndex, with or without details, or when 'from' has none
\* at fromIndex; otherwise the set gets an error at toIndex with the detail
\* 'from' has at fromIndex, possibly none.  Every other row keeps its error
\* status and detail.
C13_CopyError ==
    [][last'.op = "copyError" =>
         LET e == errors[1]
             after == errors'[1]
             from == last'.arg[1]
             fromIndex == last'.arg[2]
             toIndex == last'.index
         IN  /\ IF hasErrorAt(e, toIndex) \/ ~hasErrorAt(from, fromIndex)
                THEN after = e
                ELSE /\ hasErrorAt(after, toIndex)
                     /\ errorAt(after, toIndex) = errorAt(from, fromIndex)
             /\ SameErrorsBut(e, after, {toIndex})]_vars

\* C13: a copyError between different rows that gave the target row the
\* exception of 'from', beyond the size the set had, next to a row that has
\* the set's own exception.
C13_Witness ==
    /\ last.op = "copyError"
    /\ last.index # last.arg[2]
    /\ errorAtPtr(errors, last.index) = "d2"
    /\ last.index = size(errors[1]) - 1
    /\ \E x \in Rows : errorAtPtr(errors, x) = "d1"

\* C14: after copyErrors(rows, from) a row has an error iff it had one
\* before or it is selected and 'from' has an error there; the rows that had
\* an error keep their detail and the new ones have the detail of 'from'.
C14_CopyErrorsRows ==
    [][last'.op = "copyErrorsRows" =>
         LET e == errors[1]
             after == errors'[1]
             from == last'.arg[1]
         IN  \A r \in Rows :
                 IF hasErrorAt(e, r)
                 THEN errorAt(after, r) = errorAt(e, r)
                 ELSE IF r \in last'.rows /\ hasErrorAt(from, r)
                 THEN /\ hasErrorAt(after, r)
                      /\ errorAt(after, r) = errorAt(from, r)
                 ELSE ~hasErrorAt(after, r)]_vars

\* C14: a copyErrors(rows, from) after which a selected row has the
\* exception of 'from', a selected row where both sets had an error has the
\* set's own exception, and a row of 'from' with an error that was not
\* selected has none.
C14_Witness ==
    /\ last.op = "copyErrorsRows"
    /\ \E r \in last.rows : errorAtPtr(errors, r) = "d2"
    /\ \E r \in last.rows :
           hasErrorAt(last.arg[1], r) /\ errorAtPtr(errors, r) = "d1"
    /\ \E r \in Rows \ last.rows :
           hasErrorAt(last.arg[1], r) /\ ~hasErrorAtPtr(errors, r)

\* C15: after moveAppendErrors(sink) the context has no error set; the sink
\* has an error at a row iff it or the context had one; a row where the sink
\* had an error keeps the sink's detail and the other rows have the detail
\* of the context; a sink that was null holds the errors the context had.
C15_MoveAppendErrors ==
    [][last'.op = "moveAppendErrors" =>
         LET sink == last'.arg[1]
             after == last'.arg[2]
         IN  /\ errors' = None
             /\ \A r \in Rows :
                    IF hasErrorAtPtr(sink, r)
                    THEN errorAtPtr(after, r) = errorAtPtr(sink, r)
                    ELSE errorAtPtr(after, r) = errorAtPtr(errors, r)
             /\ sink = None => after = errors]_vars

\* C15: a moveAppendErrors into a sink that had errors: a row where both
\* had one holds the sink's exception, another holds the exception the
\* context had, and the context has no errors.
C15_Witness ==
    /\ last.op = "moveAppendErrors"
    /\ errors = None
    /\ \E r \in Rows :
           /\ errorAtPtr(last.arg[1], r) = "d2"
           /\ errorAtPtr(last.arg[2], r) = "d2"
    /\ \E r \in Rows : errorAtPtr(last.arg[2], r) = "d1"

\* C16: merging with copyErrors(from) is associative: a->copyErrors(b) then
\* a->copyErrors(c) gives, row by row, the errors and exceptions of
\* a->copyErrors(b') where b' is b after b->copyErrors(c); at a row that
\* several sets have, the one of a wins, then the one of b.
C16_MergeAssociative ==
    last.op = "merge2" =>
        LET a == last.arg[1]
            b == last.arg[2]
            c == last.arg[3]
            left == errors[1]
            right == copyErrors(a, copyErrors(b, c))
        IN  /\ size(left) = size(right)
            /\ \A r \in Rows :
                   /\ hasErrorAt(left, r) <=> hasErrorAt(right, r)
                   /\ errorAt(left, r) = errorAt(right, r)
                   /\ errorAt(left, r) =
                          IF hasErrorAt(a, r) THEN errorAt(a, r)
                          ELSE IF hasErrorAt(b, r) THEN errorAt(b, r)
                          ELSE errorAt(c, r)

\* C16: three sets merged that all have an error at one row, where the
\* first one's exception stays, and a row where only the last one has an
\* error, past the sizes of the other two.
C16_Witness ==
    /\ last.op = "merge2"
    /\ \E r \in Rows :
           /\ errorAt(last.arg[1], r) = "d1"
           /\ errorAt(last.arg[2], r) = "d2"
           /\ errorAt(last.arg[3], r) = "d3"
           /\ errorAt(errors[1], r) = "d1"
    /\ \E r \in Rows :
           /\ r >= size(last.arg[1])
           /\ r >= size(last.arg[2])
           /\ errorAt(errors[1], r) = "d3"

\* C17 as stated: in the bitmap of errorFlags the bit of a row below size()
\* is clear iff the row has an error and set iff it has none.
C17_AsClaimed ==
    errors # None =>
        \A i \in 0 .. size(errors[1]) - 1 :
            /\ errorFlags(errors[1])[i + 1] = 0 <=> hasErrorAt(errors[1], i)
            /\ errorFlags(errors[1])[i + 1] = 1 <=> ~hasErrorAt(errors[1], i)

\* C17: in the bitmap of errorFlags the bit of a row below size() is set iff
\* the row has an error and clear iff it has none; hasError, which looks for
\* the first set bit, is true iff some row has an error.
C17_ErrorFlagsPolarity ==
    errors # None =>
        LET e == errors[1]
        IN  /\ Len(errorFlags(e)) = size(e)
            /\ \A i \in 0 .. size(e) - 1 :
                   /\ errorFlags(e)[i + 1] = 1 <=> hasErrorAt(e, i)
                   /\ errorFlags(e)[i + 1] = 0 <=> ~hasErrorAt(e, i)
            /\ findFirstBit(errorFlags(e), 0, size(e)) >= 0 <=> hasError(e)
            /\ hasError(e) <=> \E i \in Rows : hasErrorAt(e, i)

\* C17: an error set with a row that has an error after a row that has none.
C17_Witness ==
    /\ errors # None
    /\ \E i, j \in Rows :
           /\ i < j
           /\ j < size(errors[1])
           /\ ~hasErrorAt(errors[1], i)
           /\ hasErrorAt(errors[1], j)
           /\ findFirstBit(errorFlags(errors[1]), 0, size(errors[1])) = j

\* C18 as stated: setError(index) on a row without an error, whatever the
\* operations before it, marks the row and errorAt(index) is then the
\* 'error without details' value, never an exception stored earlier.
C18_SetErrorLeavesDetailEmpty ==
    [][(last'.op = "setError" /\ ~hasErrorAt(errors[1], last'.index)) =>
         /\ hasErrorAt(errors'[1], last'.index)
         /\ errorAt(errors'[1], last'.index) = NoDetail]_vars

\* C19: clearError(r) with r < size() leaves the row without an error, the
\* size and every other row's error and exception as they were, and a
\* setError(r, d) after it stores d; with r >= size() nothing changes and
\* the set does not grow.
C19_ClearError ==
    [][last'.op = "clearError" =>
         LET e == errors[1]
             after == errors'[1]
             r == last'.index
         IN  IF r < size(e)
             THEN /\ ~hasErrorAt(after, r)
                  /\ size(after) = size(e)
                  /\ \A i \in Rows \ {r} :
                         /\ hasErrorAt(after, i) <=> hasErrorAt(e, i)
                         /\ errorAt(after, i) = errorAt(e, i)
                  /\ \A d \in Details :
                         /\ hasErrorAt(setErrorPtr(after, r, d), r)
                         /\ errorAt(setErrorPtr(after, r, d), r) = d
             ELSE after = e]_vars

\* C19: a clearError of a row that had an exception, while another row has
\* an error with another exception.
C19_Witness ==
    /\ last.op = "clearError"
    /\ errors # None
    /\ last.index < size(errors[1])
    /\ isNullAt(errors[1], last.index)
    /\ valueAt(errors[1], last.index) \in Details
    /\ \E i \in Rows \ {last.index} :
           /\ errorAt(errors[1], i) \in Details
           /\ errorAt(errors[1], i) # valueAt(errors[1], last.index)

\* C20: size() never decreases under ensureCapacity, setError, clearError,
\* copyError and the two copyErrors; after ensureCapacity(n) it is at
\* least n, the rows it added have no error, and the rows there were
\* before keep their error and exception.
C20_MonotoneCapacity ==
    [][(errors # None /\ errors' # None) =>
         LET e == errors[1]
             after == errors'[1]
         IN  /\ size(after) >= size(e)
             /\ last'.op = "ensureCapacity" =>
                    /\ size(after) >= last'.index
                    /\ \A i \in 0 .. size(after) - 1 :
                           IF i < size(e)
                           THEN /\ hasErrorAt(after, i) <=> hasErrorAt(e, i)
                                /\ errorAt(after, i) = errorAt(e, i)
                           ELSE ~hasErrorAt(after, i)]_vars

\* C20: an ensureCapacity(n) that made a set with an error and an exception
\* larger, after a copy had made it larger before.
C20_Witness ==
    /\ last.op = "ensureCapacity"
    /\ errors # None
    /\ last.arg[1] < last.index
    /\ size(errors[1]) = last.index
    /\ \E i, j \in Rows :
           /\ i < j
           /\ j < last.arg[1]
           /\ errorAt(errors[1], i) = "d1"
           /\ errorAt(errors[1], j) = "d2"

\* C21: in every state of an error set countErrors is the number of rows
\* below size() that have an error, hasError is true iff that number is
\* positive, and no row at or past size() has an error.
C21_CountErrors ==
    errors # None =>
        LET e == errors[1]
        IN  /\ countErrors(e) =
                   Cardinality({i \in 0 .. size(e) - 1 : hasErrorAt(e, i)})
            /\ hasError(e) <=> countErrors(e) > 0
            /\ \A i \in size(e) .. NumRows : ~hasErrorAt(e, i)

\* C21: an error set of the size of the batch with two errors, one of them
\* without details, and a row whose error with an exception was cleared.
C21_Witness ==
    /\ errors # None
    /\ size(errors[1]) = NumRows
    /\ countErrors(errors[1]) = 2
    /\ \E i \in Rows :
           /\ hasErrorAt(errors[1], i)
           /\ valueAt(errors[1], i) = NoDetail
    /\ \E i \in Rows :
           /\ ~hasErrorAt(errors[1], i)
           /\ valueAt(errors[1], i) \in Details

\* C22: a context that was just constructed has throwOnError_ true,
\* captureErrorDetails_ true, nullsPruned_ false, isFinalSelection_ true, a
\* null finalSelection_ and a null errors_.
C22_ConstructedDefaults ==
    [][last'.op = "EvalCtx" =>
         /\ throwOnError' = TRUE
         /\ captureErrorDetails' = TRUE
         /\ nullsPruned' = FALSE
         /\ isFinalSelection' = TRUE
         /\ finalSelection' = None
         /\ errors' = None]_vars

\* C22: a context just constructed, with the values of construction, after
\* one that saved errors.
C22_Witness ==
    /\ last.op = "EvalCtx"
    /\ last.arg[1] = FALSE
    /\ last.arg[2] # None
    /\ throwOnError
    /\ captureErrorDetails
    /\ ~nullsPruned
    /\ isFinalSelection
    /\ finalSelection = None
    /\ errors = None

C24_DeselectErrors ==
    [][last'.op = "deselectErrors" =>
         LET rows == last'.rows
             after == last'.arg[1]
         IN  /\ after = {r \in rows : ~hasErrorAtPtr(errors, r)}
             /\ errors' = errors
             /\ deselectErrors(errors', after) = after]_vars

\* C24: a deselectErrors that took a row with an exception and a row with
\* an error without details out of the selection, and left a row whose
\* error had been cleared and a row past the size of the error set.
C24_Witness ==
    /\ last.op = "deselectErrors"
    /\ errors # None
    /\ \E r \in last.rows \ last.arg[1] : errorAtPtr(errors, r) \in Details
    /\ \E r \in last.rows \ last.arg[1] : errorAtPtr(errors, r) = NoDetail
    /\ \/ \E r \in last.arg[1] :
              r < size(errors[1]) /\ valueAt(errors[1], r) \in Details
       \/ \E r \in last.arg[1] : r >= size(errors[1])

\* C29: when the result is null, or isFinalSelection_ is true, or the final
\* selection is rows, moveOrCopyResult(localResult, rows, result) makes the
\* result the vector of localResult: nothing of what the result held stays,
\* at the rows outside of rows either, and nothing is copied row by row.
C29_ResultReplaced ==
    [][(/\ last'.op = "moveOrCopyResult"
        /\ \/ result = None
           \/ isFinalSelection
           \/ finalSelection # None /\ finalSelection[1] = last'.rows) =>
         /\ last'.out = Returned
         /\ result' = Some(last'.arg)]_vars

\* C29: a moveOrCopyResult over some of the rows, equal to the final
\* selection of a context whose selection is not final, that left the local
\* result in the result slot.
C29_Witness ==
    /\ last.op = "moveOrCopyResult"
    /\ ~isFinalSelection
    /\ finalSelection = Some(last.rows)
    /\ last.rows # Rows
    /\ last.out = Returned
    /\ result = Some(last.arg)

\* C30: a setter constructed without override on a context whose selection
\* is already not final takes no snapshot and leaves the final selection and
\* isFinalSelection_ as they are, with checkCondition true and with it
\* false; the destruction of such a setter leaves them as they are too.
C30_OutermostScopeWins ==
    [][/\ (/\ last'.op = "ScopedFinalSelectionSetter"
           /\ ~last'.arg[2]
           /\ ~isFinalSelection) =>
            /\ ~last'.arg[3]
            /\ UNCHANGED <<finalSelection, isFinalSelection>>
       /\ (/\ last'.op = "~ScopedFinalSelectionSetter"
           /\ ~setters[Len(setters)].taken
           /\ ~setters[Len(setters)].before.isFinalSelection) =>
            UNCHANGED <<finalSelection, isFinalSelection>>]_vars

\* C30: inside a setter that set the final selection, a second setter has
\* been constructed with checkCondition and without override for another
\* selection: the final selection is still the one of the outer setter.
C30_Witness ==
    /\ last.op = "ScopedFinalSelectionSetter"
    /\ last.arg[1]
    /\ ~last.arg[2]
    /\ Len(setters) = 2
    /\ setters[1].taken
    /\ ~setters[2].taken
    /\ ~isFinalSelection
    /\ finalSelection # Some(last.rows)
    /\ finalSelection = setters[2].before.finalSelection

(***************************************************************************)
(* Properties of the scratch handles.                                      *)
(***************************************************************************)

\* The objects the pools have allocated.
Made == 1 .. locals.made

\* The objects held by a live handle and the objects in the pools.
HeldObjects == {locals.handles[h].vector : h \in Handles} \ {0}

PooledObjects ==
    {locals.sv[i] : i \in 1 .. Len(locals.sv)}
        \cup {locals.dv[i] : i \in 1 .. Len(locals.dv)}

\* C25 as stated: whatever handles are constructed, used, moved and
\* destroyed, an object taken from a pool of the ExecCtx is held by one
\* handle or back in its pool once, never deleted or lost; when every
\* handle is gone the objects are all back; and a handle constructed
\* without a size holds nothing until its first use.
C25_HandlesReleaseToPool ==
    /\ locals.destroyed = {}
    /\ HeldObjects \cup PooledObjects = Made
    /\ HeldObjects \cap PooledObjects = {}
    /\ Len(locals.sv) + Len(locals.dv) = Cardinality(PooledObjects)
    /\ \A h, g \in Handles :
           (h # g /\ locals.handles[h].vector # 0) =>
               locals.handles[h].vector # locals.handles[g].vector
    /\ (\A h \in Handles : ~Live(h)) => PooledObjects = Made
    /\ (last.op = "construct" /\ ~last.arg[2]) =>
           locals.handles[last.index].vector = 0

(***************************************************************************)
(* Properties of the decimal kernels.                                      *)
(***************************************************************************)

\* C26 as stated: check_overflow with nullOnOverflow false in a context
\* with throwOnError_ false: a selected row whose rescaled value does not
\* fit has an error in the error set of the context afterwards and is null
\* in the result, and every other selected row holds its rescaled value.
C26_OverflowRecordedPerRow ==
    [][(last'.op = "checkOverflow" /\ ~last'.arg[2] /\ ~throwOnError) =>
         \A r \in last'.rows :
             LET toType == last'.arg[3]
                 rescaled == rescaledValue(last'.arg[1][r + 1], FromType[2],
                                           toType[2])
             IN  IF Abs(rescaled) >= Pow10(toType[1])
                 THEN /\ hasErrorAtPtr(errors', r)
                      /\ result'[1][r + 1].null
                 ELSE result'[1][r + 1] = ResultCell(FALSE, rescaled)]_vars

\* C27: the type of the result of round_decimal.  With integralDigits =
\* precision_in - scale_in + 1: for a negative scale s_out = 0 and p_out =
\* min(max(integralDigits, -scale_in + 1), 38); otherwise s_out =
\* min(scale_in, scale) and p_out = min(integralDigits + s_out, 38); the
\* result is a long decimal iff p_out > 18.
C27_RoundDecimalType ==
    last.op = "roundDecimal" =>
        LET precisionIn == last.arg[1]
            scaleIn == last.arg[2]
            scale == last.arg[3]
            out == last.arg[4]
            integralDigits == precisionIn - scaleIn + 1
        IN  /\ scale < 0 =>
                   /\ out.toScale = 0
                   /\ \/ /\ integralDigits >= 1 - scaleIn
                         /\ integralDigits <= 38
                         /\ out.toPrecision = integralDigits
                      \/ /\ integralDigits < 1 - scaleIn
                         /\ 1 - scaleIn <= 38
                         /\ out.toPrecision = 1 - scaleIn
                      \/ /\ integralDigits > 38 \/ 1 - scaleIn > 38
                         /\ out.toPrecision = 38
            /\ scale >= 0 =>
                   /\ out.toScale = (IF scaleIn <= scale THEN scaleIn
                                     ELSE scale)
                   /\ out.toPrecision =
                          (IF integralDigits + out.toScale <= 38
                           THEN integralDigits + out.toScale ELSE 38)
            /\ out.long <=> out.toPrecision > 18

\* C27: a round_decimal to a negative scale of a decimal of 38 integral
\* digits, whose result is a long decimal of scale 0 with the precision
\* capped.
C27_Witness ==
    /\ last.op = "roundDecimal"
    /\ last.arg[3] < 0
    /\ last.arg[1] - last.arg[2] + 1 > 38
    /\ last.arg[4] = RoundType(38, 0, TRUE)

(***************************************************************************)
(* Properties of field access.                                             *)
(***************************************************************************)

C31_ThrowWithoutDetailFailsCheck ==
    [][(/\ \/ last'.op = "setError"
           \/ /\ last'.op = "ctxSetError"
              /\ ~throwOnError
              /\ ~captureErrorDetails
        /\ ~hasErrorAtPtr(errors, last'.index)) =>
         throwIfErrorAt(errors'[1], last'.index) = CheckFailed]_vars

(***************************************************************************)
(* Properties of the flags across saveAndReset and restore.                *)
(***************************************************************************)

\* C32: saveAndReset and restore leave isFinalSelection_, throwOnError_ and
\* captureErrorDetails_ as they are, and the saver holds none of them: what
\* a scope has set them to is what they are after the restore.
C32_FlagsOutsideSnapshot ==
    [][/\ last'.op \in {"saveAndReset", "withContextSaver",
                        "saveAndReset; restore"} =>
            UNCHANGED <<isFinalSelection, throwOnError, captureErrorDetails>>
       /\ last'.op = "saveAndReset" =>
            DOMAIN saver'[1] = DOMAIN ContextSaver]_vars

\* C32: a scope that took a snapshot has been left with a restore, and the
\* three flags, set inside the scope, are not what they were before it.
C32_Witness ==
    /\ last.op = "withContextSaver"
    /\ last.index = 1
    /\ last.out = Returned
    /\ ~isFinalSelection
    /\ throwOnError
    /\ ~captureErrorDetails

====
